---- MODULE Spec2Model ----
(***************************************************************************)
(* A model of the deployment retry-and-repair loop of src/debug.js: the    *)
(* debug tool's main(), fixDeploymentErrors(), logAudit() and the helpers  *)
(* they use.  One run of the command line tool is one behaviour.  The      *)
(* external world (the build/synth/deploy commands, the inference          *)
(* endpoint, the filesystem) is a nondeterministic choice of the outcomes  *)
(* it can produce.  The helper functions (the error-context extractor,     *)
(* the checksum, and the error fingerprint of src/unnamed/part_001) have   *)
(* specifications of their own, in which px holds the call under study.    *)
(***************************************************************************)
EXTENDS Integers, Sequences, FiniteSets, TLC

\* ------------------------------------------------------------------ bounds
\* largest numeric value given to --max-attempts
MaxOption == 3
\* most entries in a file list answered to a run with scripted file lists
MaxApplyFiles == 2
\* most file mentions in one error text
MaxMentions == 3
\* longest content given to calculateChecksum
MaxLen == 5

\* ------------------------------------------------------- program constants
MAX_FIX_ATTEMPTS == 5
SnippetLen == 200

\* ---------------------------------------------------------- input domains
\* What parseInt(options.maxAttempts) yields: NaN (non-numeric text) or an
\* integer.
ParsedOptions ==
    {[nan |-> TRUE, val |-> 0]} \cup {[nan |-> FALSE, val |-> v] : v \in -1 .. MaxOption}

\* Error texts are sequences of characters.  "OW" stands for the characters of the
\* signature 'overwrite input file'.
ErrTexts == {<< >>, <<"OW">>}
ErrMessage == "Command failed"

\* file names are path strings: sequences of tokens (see the paths section)
FileA == <<"lib", "/", "a", ".ts">>
FileB == <<"lib", "/", "b", ".ts">>
\* file contents are sequences of char codes
ContentX == <<88>>
ContentY == <<89>>
Original == <<79>>

\* the non-empty file lists a well-formed response can carry
FileLists == {<<[filename |-> FileA, content |-> ContentX]>>,
              <<[filename |-> FileA, content |-> ContentX],
                [filename |-> FileB, content |-> ContentX]>>,
              <<[filename |-> FileB, content |-> ContentX],
                [filename |-> FileA, content |-> ContentX]>>}

\* what one request to the inference endpoint can come back with
\*   transport : axios.post rejects (network / HTTP error)
\*   nojson    : a text without any {...} substring
\*   badjson   : a {...} substring that JSON.parse rejects
\*   nofiles   : an object without a non-empty files array
\*   files     : an object with a non-empty files array
ResponseKinds ==
    {"transport", "nojson", "badjson", "nofiles", "notarray", "emptyfiles", "files"}

\* result.summary as parsed: no such field, '', or a text
Summaries == {"absent", "", "given"}

\* the answers with a summary
Responses == {[kind |-> k, summary |-> "given"] :
                 k \in {"transport", "nojson", "badjson", "nofiles", "files"}}

NoError == [set |-> FALSE, message |-> "", stdout |-> << >>, stderr |-> << >>]

NoAudit == [written |-> FALSE, prompt |-> FALSE, rawResponse |-> FALSE,
            response |-> FALSE, parseError |-> FALSE, apiError |-> FALSE,
            success |-> FALSE, summary |-> "none"]

\* ------------------------------------------------------------------- state
VARIABLES
    pc,            \* position of main / fixDeploymentErrors
    parsedOption,  \* parseInt(options.maxAttempts)
    apiKey,        \* CLAUDE_API_KEY is set
    validProject,  \* projectDir holds a cdk.json
    cwdChanged,    \* process.chdir(projectDir) has run
    attempt,       \* main: attempt
    lastError,     \* main: lastError
    success,       \* main: success
    fixHistory,    \* main: fixHistory
    exitCode,      \* process exit code, -1 while running
    auditData,     \* fixDeploymentErrors: auditData (and the parsed result)
    result,        \* fixDeploymentErrors: result.files, << >> when none
    applyIdx,      \* fixDeploymentErrors: index of the next file to write
    disk,          \* the filesystem: files (absolute path -> content) and dirs
    auditJson,     \* the JSON audit record written last in the current fix step
    fixStats,      \* per fix step: calls of logAudit, files written, ...
    historyFile,   \* fix-history.json: whether written, and its entries
    cmds,          \* external commands run by the deploy step of this iteration
    ghost,         \* run counters used only to state properties
    texts,         \* environment: the error texts the commands of attempt i can print
    lists,         \* environment: the file lists the inference endpoint can answer with
    responses,     \* environment: the answers it can give, each an outcome and a summary
    px             \* the helper function under study and its locals (idle in main)

vars == <<pc, parsedOption, apiKey, validProject, cwdChanged, attempt, lastError,
          success, fixHistory, exitCode, auditData, result, applyIdx, disk,
          auditJson, fixStats, historyFile, cmds, ghost, texts, lists,
          responses, px>>

\* ------------------------------------------------------------------- paths
\* A path string is a sequence of tokens: "/" is the separator, "." and ".."
\* are the special segments, every other token is a run of characters of a
\* name (so <<"proj", "2">> is the name proj2, which starts with proj).
Sep == "/"

\* path.resolve(options.project)
ProjectDir == <<Sep, "proj">>

\* path.isAbsolute
IsAbsolute(p) == Len(p) > 0 /\ p[1] = Sep

\* String.prototype.startsWith
StartsWith(s, pre) == Len(pre) <= Len(s) /\ SubSeq(s, 1, Len(pre)) = pre

\* String.prototype.endsWith
EndsWith(s, suf) ==
    Len(suf) <= Len(s) /\ SubSeq(s, Len(s) - Len(suf) + 1, Len(s)) = suf

\* the segments between the separators, empty ones dropped
RECURSIVE SplitFrom(_, _, _, _)
SplitFrom(p, i, cur, acc) ==
    IF i > Len(p) THEN (IF cur = << >> THEN acc ELSE Append(acc, cur))
    ELSE IF p[i] = Sep
         THEN SplitFrom(p, i + 1, << >>, IF cur = << >> THEN acc ELSE Append(acc, cur))
         ELSE SplitFrom(p, i + 1, Append(cur, p[i]), acc)

Segments(p) == SplitFrom(p, 1, << >>, << >>)

\* path.normalize on segments: "." is dropped, ".." removes the segment
\* before it; above the root it is dropped, in a relative path it is kept
RECURSIVE NormSegs(_, _, _, _)
NormSegs(segs, i, abs, acc) ==
    IF i > Len(segs) THEN acc
    ELSE CASE segs[i] = <<".">> -> NormSegs(segs, i + 1, abs, acc)
           [] segs[i] = <<"..">> ->
                IF acc # << >> /\ acc[Len(acc)] # <<"..">>
                THEN NormSegs(segs, i + 1, abs, SubSeq(acc, 1, Len(acc) - 1))
                ELSE IF abs THEN NormSegs(segs, i + 1, abs, acc)
                ELSE NormSegs(segs, i + 1, abs, Append(acc, segs[i]))
           [] OTHER -> NormSegs(segs, i + 1, abs, Append(acc, segs[i]))

RECURSIVE JoinSegs(_, _)
JoinSegs(segs, n) ==
    IF n = 0 THEN << >>
    ELSE IF n = 1 THEN segs[1]
    ELSE JoinSegs(segs, n - 1) \o <<Sep>> \o segs[n]

\* the string of a list of normalized segments
Unsplit(segs, abs) ==
    IF abs THEN <<Sep>> \o JoinSegs(segs, Len(segs))
    ELSE IF segs = << >> THEN <<".">>
    ELSE JoinSegs(segs, Len(segs))

\* path.normalize
pathNormalize(p) == Unsplit(NormSegs(Segments(p), 1, IsAbsolute(p), << >>), IsAbsolute(p))

\* path.join(a, b): the two joined by a separator, then normalized
pathJoin(a, b) ==
    IF b = << >> THEN pathNormalize(a) ELSE pathNormalize(a \o <<Sep>> \o b)

\* path.dirname of an absolute normalized path
pathDirname(p) ==
    LET segs == Segments(p)
    IN  IF Len(segs) <= 1 THEN <<Sep>> ELSE Unsplit(SubSeq(segs, 1, Len(segs) - 1), TRUE)

\* path.basename
pathBasename(p) ==
    LET segs == Segments(p) IN IF segs = << >> THEN << >> ELSE segs[Len(segs)]

\* the length of the longest common prefix of two segment lists
RECURSIVE CommonLen(_, _, _)
CommonLen(a, b, n) ==
    IF n < Len(a) /\ n < Len(b) /\ a[n + 1] = b[n + 1] THEN CommonLen(a, b, n + 1) ELSE n

\* path.relative(from, to) of two absolute paths
pathRelative(from, to) ==
    LET f == NormSegs(Segments(from), 1, TRUE, << >>)
        t == NormSegs(Segments(to), 1, TRUE, << >>)
        c == CommonLen(f, t, 0)
        ups == [i \in 1 .. Len(f) - c |-> <<"..">>]
        rest == ups \o SubSeq(t, c + 1, Len(t))
    IN  JoinSegs(rest, Len(rest))

\* an absolute normalized path lies in the directory tree of root
UnderDir(p, root) ==
    LET ps == Segments(p)
        rs == Segments(root)
    IN  Len(rs) <= Len(ps) /\ SubSeq(ps, 1, Len(rs)) = rs

\* a directory and every directory above it
RECURSIVE Ancestors(_)
Ancestors(dir) ==
    IF Segments(dir) = << >> THEN {<<Sep>>} ELSE {dir} \cup Ancestors(pathDirname(dir))

\* fs.mkdir(dir, { recursive: true })
MkdirP(dirs, dir) == dirs \cup Ancestors(dir)

\* a write that leaves an existing file as it is
WriteFileKeep(files, path, content) ==
    [q \in DOMAIN files \cup {path} |-> IF q \in DOMAIN files THEN files[q] ELSE content]

\* fs.writeFile(path, content): the file is created or replaced
WriteFile(files, path, content) ==
    [q \in DOMAIN files \cup {path} |-> IF q = path THEN content ELSE files[q]]

\* ----------------------------------------------------------------- helpers
\* the parsed value taken as it is
MaxAttemptsParsed(p) == p.val

\* debug.js:39  parseInt(options.maxAttempts) || MAX_FIX_ATTEMPTS
\* (NaN and 0 are falsy and give the default)
MaxAttemptsOf(p) == IF p.nan \/ p.val = 0 THEN MAX_FIX_ATTEMPTS ELSE p.val

maxAttempts == MaxAttemptsOf(parsedOption)

Includes(text, line) == \E i \in 1 .. Len(text) : text[i] = line

Min(a, b) == IF a < b THEN a ELSE b

\* debug.js:137  lastError.stderr?.substring(0, 200) || lastError.message
Snippet(err) ==
    IF err.stderr = << >> THEN <<err.message>>
    ELSE SubSeq(err.stderr, 1, Min(SnippetLen, Len(err.stderr)))

\* A 32-bit word is kept as two 16-bit halves <<hi, lo>> so that no
\* intermediate value leaves the range of the checker's integers.
Half == 256 * 256

\* x << 4 on a 32-bit word
Shl4(w) ==
    LET lo == w[2] * 16
        hi == w[1] * 16 + (lo \div Half)
    IN  <<hi % Half, lo % Half>>

\* x << 5 on a 32-bit word
Shl5(w) ==
    LET lo == w[2] * 32
        hi == w[1] * 32 + (lo \div Half)
    IN  <<hi % Half, lo % Half>>

\* (a - b) mod 2^32
Sub32(a, b) ==
    LET lo == a[2] - b[2]
        borrow == IF lo < 0 THEN 1 ELSE 0
        hi == a[1] - b[1] - borrow
    IN  <<hi % Half, lo % Half>>

\* (a + c) mod 2^32 for a char code c
Add32(a, c) ==
    LET lo == a[2] + c
        hi == a[1] + (lo \div Half)
    IN  <<hi % Half, lo % Half>>

\* debug.js:248-249: hash = ((hash << 5) - hash) + char; hash = hash & hash
HashStep(h, char) == Add32(Sub32(Shl5(h), h), char)

RECURSIVE HashWord(_, _)
HashWord(content, n) ==
    IF n = 0 THEN <<0, 0>> ELSE HashStep(HashWord(content, n - 1), content[n])

HexDigit(d) == <<"0", "1", "2", "3", "4", "5", "6", "7", "8", "9",
                 "a", "b", "c", "d", "e", "f">>[d + 1]

\* the hexadecimal digits of a magnitude given as two halves
RECURSIVE HexOf(_, _)
HexOf(hi, lo) ==
    IF hi = 0 /\ lo < 16 THEN <<HexDigit(lo)>>
    ELSE LET v == (hi % 16) * Half + lo
         IN  Append(HexOf(hi \div 16, v \div 16), HexDigit(v % 16))

\* Number.prototype.toString(16) of a signed 32-bit value given as a word
ToString16(w) ==
    IF w[1] >= Half \div 2
    THEN LET m == Sub32(<<0, 0>>, w) IN <<"-">> \o HexOf(m[1], m[2])
    ELSE HexOf(w[1], w[2])

\* debug.js:244-252
calculateChecksum(content) == ToString16(HashWord(content, Len(content)))

\* debug.js:275-325.  fs is what the filesystem does to this call.  The JSON
\* file is written first; the readable text is built from data.response, so
\* with response = null building it throws and the second file is not written.
AuditFs == {"ok", "mkdirfail", "jsonfail", "mdfail"}

logAudit(data, fs) ==
    LET json == fs \notin {"mkdirfail", "jsonfail"}
        md == json /\ data.response /\ fs # "mdfail"
    IN  [json |-> json, md |-> md, fault |-> fs # "ok"]

NoStats == [kind |-> "none", requested |-> FALSE, logAuditCalls |-> 0,
            jsonFiles |-> 0, mdFiles |-> 0, fsFault |-> FALSE, filesWritten |-> 0,
            parsedSummary |-> "none"]

\* the bookkeeping of one logAudit call
Audited(stats, out) ==
    [stats EXCEPT !.logAuditCalls = @ + 1,
                  !.jsonFiles = @ + (IF out.json THEN 1 ELSE 0),
                  !.mdFiles = @ + (IF out.md THEN 1 ELSE 0),
                  !.fsFault = @ \/ out.fault]

AuditRecord(data) == [data EXCEPT !.written = TRUE]

\* debug.js:133-144
HistoryEntry(att, err, files, summary) ==
    [attempt |-> att,
     summary |-> summary,
     error |-> [message |-> err.message, snippet |-> Snippet(err)],
     fixedFiles |-> [i \in 1 .. Len(files) |->
                        [filename |-> files[i].filename,
                         checksum |-> calculateChecksum(files[i].content)]]]

\* a push at the wrong end
HistoryPushFront(h, e) == <<e>> \o h

\* fixHistory.push(...)
HistoryPush(h, e) == Append(h, e)

NoHistoryFile == [written |-> FALSE, entries |-> << >>]

NoGhost == [deploys |-> 0, fixes |-> 0, fixThrows |-> 0, fixReturns |-> 0,
            onlyTransport |-> TRUE,
            histWrites |-> 0, abort |-> "none", chmods |-> {}, unlinks |-> {}]

\* the project as it is before the run: lib/a.ts exists
InitialDisk ==
    [files |-> [q \in {pathJoin(ProjectDir, FileA)} |-> Original],
     dirs |-> Ancestors(pathDirname(pathJoin(ProjectDir, FileA)))]

\* debug.js:496-503: the body of the loop over result.files
ApplyFile(d, file) ==
    LET filePath == pathJoin(ProjectDir, file.filename)
    IN  [files |-> WriteFile(d.files, filePath, file.content),
         dirs |-> MkdirP(d.dirs, pathDirname(filePath))]

\* no helper function under study
NoPx == [fn |-> "none"]

\* -------------------------------------------------------------------- Init
\* debug.js:77-82 and the state of the world before main() runs
Start ==
    /\ pc = "validate"
    /\ cwdChanged = FALSE
    /\ attempt = 0
    /\ lastError = NoError
    /\ success = FALSE
    /\ fixHistory = << >>
    /\ exitCode = -1
    /\ auditData = NoAudit
    /\ result = << >>
    /\ applyIdx = 0
    /\ disk = InitialDisk
    /\ auditJson = NoAudit
    /\ fixStats = NoStats
    /\ historyFile = NoHistoryFile
    /\ cmds = << >>
    /\ ghost = NoGhost

Init ==
    /\ Start
    /\ parsedOption \in ParsedOptions
    /\ apiKey \in BOOLEAN
    /\ validProject \in BOOLEAN
    /\ texts = <<ErrTexts>>
    /\ lists = FileLists
    /\ responses = Responses
    /\ px = NoPx

fixLocals == <<auditData, result, applyIdx>>
config == <<parsedOption, apiKey, validProject, texts, lists, responses, px>>

\* ------------------------------------------------------------ main, set-up
\* a validation whose failure does not end the run
ValidateNoExit ==
    /\ pc = "validate"
    /\ pc' = "loop"
    /\ cwdChanged' = TRUE
    /\ exitCode' = exitCode
    /\ UNCHANGED <<config, attempt, lastError, success, fixHistory, fixLocals, disk,
                   auditJson, fixStats, historyFile, cmds, ghost>>

\* debug.js:41-82: `test -f cdk.json`; on failure process.exit(1); otherwise
\* the diagram is read, the environment prepared and the process changes
\* into the project directory.
Validate ==
    /\ pc = "validate"
    /\ IF validProject
       THEN /\ pc' = "loop"
            /\ cwdChanged' = TRUE
            /\ exitCode' = exitCode
       ELSE /\ pc' = "done"
            /\ exitCode' = 1
            /\ cwdChanged' = cwdChanged
    /\ UNCHANGED <<config, attempt, lastError, success, fixHistory, fixLocals, disk,
                   auditJson, fixStats, historyFile, cmds, ghost>>

\* debug.js:84-86: the loop condition and attempt++
LoopHead ==
    /\ pc = "loop"
    /\ IF attempt < maxAttempts /\ ~success
       THEN /\ attempt' = attempt + 1
            /\ pc' = "precheck"
       ELSE /\ attempt' = attempt
            /\ pc' = "savehistory"
    /\ UNCHANGED <<config, cwdChanged, lastError, success, fixHistory, exitCode,
                   fixLocals, disk, auditJson, fixStats, historyFile, cmds, ghost>>

\* The tokens of an error text that stand for a message
\* Cannot write file '<path>', and the path each one names: the project's
\* lib/a.ts by its absolute path, a file outside the project by its
\* absolute path, a file above the project by a relative path, and a
\* relative path at which there is no file.
CannotWrite == {"CWin", "CWout", "CWup", "CWgone"}

CannotWritePath(token) ==
    CASE token = "CWin" -> ProjectDir \o <<Sep>> \o FileA
      [] token = "CWout" -> <<Sep, "etc", Sep, "x">>
      [] token = "CWup" -> <<"..", Sep, "x", ".ts">>
      [] OTHER -> <<"src", Sep, "new", Sep, "c", ".ts">>

\* debug.js:91: lastError.stderr.match(/Cannot write file ['"]([^'"]+)['"]/g)
overwriteMatches(stderr) == SelectSeq(stderr, LAMBDA t : t \in CannotWrite)

\* the file a path names for fs: main has changed to the project
\* directory (debug.js:74), against which a relative path is resolved
Resolve(filePath) ==
    IF IsAbsolute(filePath) THEN pathNormalize(filePath)
    ELSE pathJoin(ProjectDir, filePath)

\* how chmod, accessSync and unlink go for one file: chmod rejects; the
\* file is writable afterwards; it is not and unlink removes it; it is not
\* and unlink rejects
PrecheckOutcomes == {"chmodfail", "writable", "unlinked", "unlinkfail"}

RECURSIVE FixOverwrites(_, _, _, _)
\* debug.js:96-117: the loop over the matches from the i-th on, on the
\* disk d and with the log g of the files changed
FixOverwrites(d, g, matches, outcomes) ==
    IF matches = << >> THEN [disk |-> d, ghost |-> g]
    ELSE LET filePath == Resolve(CannotWritePath(Head(matches)))
             outcome == Head(outcomes)
             exists == filePath \in DOMAIN d.files
             d1 == IF exists /\ outcome = "unlinked"
                   THEN [d EXCEPT !.files = [q \in DOMAIN d.files \ {filePath} |->
                                                d.files[q]]]
                   ELSE d
             g1 == IF ~exists \/ outcome = "chmodfail" THEN g
                   ELSE IF outcome = "unlinked"
                   THEN [g EXCEPT !.chmods = @ \cup {filePath},
                                  !.unlinks = @ \cup {filePath}]
                   ELSE [g EXCEPT !.chmods = @ \cup {filePath}]
         IN FixOverwrites(d1, g1, Tail(matches), Tail(outcomes))

\* debug.js:88-121: the overwrite pre-check (every error inside it is
\* caught) and the test of lastError.
Precheck ==
    /\ pc = "precheck"
    /\ IF lastError.set /\ Includes(lastError.stderr, "OW")
       THEN LET matches == overwriteMatches(lastError.stderr)
            IN \E outcomes \in [1 .. Len(matches) -> PrecheckOutcomes] :
                   LET fixed == FixOverwrites(disk, ghost, matches, outcomes)
                   IN disk' = fixed.disk /\ ghost' = fixed.ghost
       ELSE UNCHANGED <<disk, ghost>>
    /\ pc' = IF lastError.set THEN "fix" ELSE "deploy"
    /\ UNCHANGED <<config, cwdChanged, attempt, lastError, success, fixHistory,
                   exitCode, fixLocals, auditJson, fixStats, historyFile, cmds>>

\* ------------------------------------------------------ fixDeploymentErrors
\* debug.js:328-430: the credential check, then the prompt and auditData.
FixEnter ==
    /\ pc = "fix"
    /\ ghost' = [ghost EXCEPT !.fixes = @ + 1]
    /\ auditJson' = NoAudit
    /\ IF ~apiKey
       THEN /\ pc' = "fixcatch"
            /\ fixStats' = [NoStats EXCEPT !.kind = "nokey"]
            /\ UNCHANGED auditData
       ELSE /\ pc' = "request"
            /\ fixStats' = [NoStats EXCEPT !.requested = TRUE]
            /\ auditData' = [NoAudit EXCEPT !.prompt = TRUE]
    /\ UNCHANGED <<config, cwdChanged, attempt, lastError, success, fixHistory,
                   exitCode, result, applyIdx, disk, historyFile, cmds>>

\* a summary kept whatever the response holds
SummaryKept(summary) == summary

\* debug.js:464-467: if (!result.summary) result.summary = 'No summary provided'
SummaryOf(summary) ==
    IF summary \in {"absent", ""} THEN "No summary provided" ELSE summary

\* debug.js:432-479: the request, the search for {...}, JSON.parse and the
\* structure check (no files field, files not an array, files empty).
FixRequest ==
    /\ pc = "request"
    /\ \E k \in ResponseKinds, summary \in Summaries :
        /\ [kind |-> k, summary |-> summary] \in responses
        /\ fixStats' = [fixStats EXCEPT !.kind = k,
                                        !.parsedSummary = IF k = "files" THEN summary
                                                          ELSE "none"]
        /\ auditData' = [auditData EXCEPT !.rawResponse = (k # "transport"),
                                          !.response = (k = "files"),
                                          !.summary = IF k = "files"
                                                      THEN SummaryOf(summary)
                                                      ELSE "none"]
        /\ pc' = CASE k \in {"transport", "nojson"} -> "outercatch"
                   [] k \in {"badjson", "nofiles", "notarray", "emptyfiles"} -> "innercatch"
                   [] OTHER -> "apply"
        /\ IF k = "files"
           THEN /\ result' \in lists
                /\ applyIdx' = 1
           ELSE UNCHANGED <<result, applyIdx>>
    /\ UNCHANGED <<config, cwdChanged, attempt, lastError, success, fixHistory,
                   exitCode, disk, auditJson, historyFile, cmds, ghost>>

\* debug.js:481-490: the catch around JSON.parse: audit, then throw again
FixInnerCatch ==
    /\ pc = "innercatch"
    /\ \E fs \in AuditFs :
        LET data == [auditData EXCEPT !.parseError = TRUE]
            out == logAudit(data, fs)
        IN  /\ auditData' = data
            /\ fixStats' = Audited(fixStats, out)
            /\ auditJson' = IF out.json THEN AuditRecord(data) ELSE auditJson
    /\ pc' = "outercatch"
    /\ UNCHANGED <<config, cwdChanged, attempt, lastError, success, fixHistory,
                   exitCode, result, applyIdx, disk, historyFile, cmds, ghost>>

\* debug.js:495-504: one turn of the loop over result.files; mkdir or
\* writeFile can fail
FixApplyFile ==
    /\ pc = "apply"
    /\ applyIdx <= Len(result)
    /\ \E ok \in BOOLEAN :
        IF ok
        THEN /\ disk' = ApplyFile(disk, result[applyIdx])
             /\ applyIdx' = applyIdx + 1
             /\ fixStats' = [fixStats EXCEPT !.filesWritten = @ + 1]
             /\ pc' = pc
        ELSE /\ pc' = "outercatch"
             /\ fixStats' = [fixStats EXCEPT !.kind = "writefail"]
             /\ UNCHANGED <<disk, applyIdx>>
    /\ UNCHANGED <<config, cwdChanged, attempt, lastError, success, fixHistory,
                   exitCode, auditData, result, auditJson, historyFile, cmds, ghost>>

\* debug.js:506-513: every file written: audit with success = true, return
FixSucceed ==
    /\ pc = "apply"
    /\ applyIdx > Len(result)
    /\ \E fs \in AuditFs :
        LET data == [auditData EXCEPT !.success = TRUE]
            out == logAudit(data, fs)
        IN  /\ auditData' = data
            /\ fixStats' = Audited(fixStats, out)
            /\ auditJson' = IF out.json THEN AuditRecord(data) ELSE auditJson
    /\ pc' = "fixreturn"
    /\ ghost' = [ghost EXCEPT !.fixReturns = @ + 1]
    /\ UNCHANGED <<config, cwdChanged, attempt, lastError, success, fixHistory,
                   exitCode, result, applyIdx, disk, historyFile, cmds>>

\* the outer catch throwing again without the audit
FixOuterCatchNoAudit ==
    /\ pc = "outercatch"
    /\ auditData' = [auditData EXCEPT !.apiError = TRUE]
    /\ pc' = "fixcatch"
    /\ UNCHANGED <<config, cwdChanged, attempt, lastError, success, fixHistory,
                   exitCode, result, applyIdx, disk, auditJson, fixStats, historyFile,
                   cmds, ghost>>

\* debug.js:514-523: the catch around the whole request: audit, then throw
FixOuterCatch ==
    /\ pc = "outercatch"
    /\ \E fs \in AuditFs :
        LET data == [auditData EXCEPT !.apiError = TRUE]
            out == logAudit(data, fs)
        IN  /\ auditData' = data
            /\ fixStats' = Audited(fixStats, out)
            /\ auditJson' = IF out.json THEN AuditRecord(data) ELSE auditJson
    /\ pc' = "fixcatch"
    /\ UNCHANGED <<config, cwdChanged, attempt, lastError, success, fixHistory,
                   exitCode, result, applyIdx, disk, historyFile, cmds, ghost>>

\* -------------------------------------------------------- main, the fix step
\* debug.js:125-146: fixDeploymentErrors returned: push the history entry
FixReturn ==
    /\ pc = "fixreturn"
    /\ fixHistory' = HistoryPush(fixHistory, HistoryEntry(attempt, lastError, result, auditData.summary))
    /\ pc' = "deploy"
    /\ ghost' = [ghost EXCEPT !.onlyTransport = FALSE]
    /\ auditData' = NoAudit
    /\ result' = << >>
    /\ applyIdx' = 0
    /\ UNCHANGED <<config, cwdChanged, attempt, lastError, success, exitCode, disk,
                   auditJson, fixStats, historyFile, cmds>>

\* a catch that records the failed fix step in the history as well
FixCatchPush ==
    /\ pc = "fixcatch"
    /\ pc' = "deploy"
    /\ fixHistory' = HistoryPush(fixHistory, HistoryEntry(attempt, lastError, << >>, "none"))
    /\ ghost' = [ghost EXCEPT !.fixThrows = @ + 1,
                              !.onlyTransport = @ /\ fixStats.kind = "transport"]
    /\ auditData' = NoAudit
    /\ result' = << >>
    /\ applyIdx' = 0
    /\ UNCHANGED <<config, cwdChanged, attempt, lastError, success, exitCode, disk,
                   auditJson, fixStats, historyFile, cmds>>

\* debug.js:147-151: fixDeploymentErrors threw: log, go on to the deploy
FixCatch ==
    /\ pc = "fixcatch"
    /\ pc' = "deploy"
    /\ ghost' = [ghost EXCEPT !.fixThrows = @ + 1,
                              !.onlyTransport = @ /\ fixStats.kind = "transport"]
    /\ auditData' = NoAudit
    /\ result' = << >>
    /\ applyIdx' = 0
    /\ UNCHANGED <<config, cwdChanged, attempt, lastError, success, fixHistory,
                   exitCode, disk, auditJson, fixStats, historyFile, cmds>>

\* ----------------------------------------------------- main, the deploy step
\* debug.js:226-241: npm run build; when it fails with the overwrite
\* signature in stderr, npx tsc --build --force; any other failure is thrown
\* again.  b is what the build does, t whether the forced build exits 0.
buildWithOverwrite(b, t) ==
    CASE b = "ok" -> [cmds |-> <<[cmd |-> "build", ok |-> TRUE]>>, ok |-> TRUE]
      [] b = "overwrite" -> [cmds |-> <<[cmd |-> "build", ok |-> FALSE],
                                        [cmd |-> "tsc", ok |-> t]>>, ok |-> t]
      [] OTHER -> [cmds |-> <<[cmd |-> "build", ok |-> FALSE]>>, ok |-> FALSE]

\* a deploy step that runs synth and deploy whatever the build did
RunDeployAnyway(b, t, s, d) ==
    [cmds |-> buildWithOverwrite(b, t).cmds \o <<[cmd |-> "synth", ok |-> s],
                                                 [cmd |-> "deploy", ok |-> d]>>,
     ok |-> d]

\* debug.js:156-169: build, then synth, then deploy; the first command that
\* fails ends the step.
RunDeploy(b, t, s, d) ==
    LET built == buildWithOverwrite(b, t)
        synth == <<[cmd |-> "synth", ok |-> s]>>
        deploy == <<[cmd |-> "deploy", ok |-> d]>>
    IN  IF ~built.ok THEN built
        ELSE IF ~s THEN [cmds |-> built.cmds \o synth, ok |-> FALSE]
        ELSE [cmds |-> built.cmds \o synth \o deploy, ok |-> d]

\* the distinct ways one deploy step can go
DeployRuns == {RunDeploy(b, t, s, d) :
                  b \in {"ok", "overwrite", "fail"}, t \in BOOLEAN,
                  s \in BOOLEAN, d \in BOOLEAN}

\* debug.js:154-181: the deploy step, up to success = true or lastError = ...
DeployStep ==
    /\ pc = "deploy"
    /\ ghost' = [ghost EXCEPT !.deploys = @ + 1]
    /\ fixStats' = NoStats
    /\ auditJson' = NoAudit
    /\ \E run \in DeployRuns :
        /\ cmds' = run.cmds
        /\ IF run.ok
           THEN /\ success' = TRUE
                /\ pc' = "loop"
                /\ UNCHANGED lastError
           ELSE /\ \E text \in texts[Min(attempt, Len(texts))] :
                    lastError' = [set |-> TRUE, message |-> ErrMessage,
                                  stdout |-> << >>, stderr |-> text]
                /\ pc' = "errlog"
                /\ UNCHANGED success
    /\ UNCHANGED <<config, cwdChanged, attempt, fixHistory, exitCode, fixLocals, disk,
                   historyFile>>

\* debug.js:182-190 and 219-222: deployment-error-<attempt>.log is written
\* inside the catch block of the deploy step, outside any inner try: when
\* the write fails the error reaches the catch of main, which returns 1.
WriteErrorLog ==
    /\ pc = "errlog"
    /\ cmds' = << >>
    /\ \E ok \in BOOLEAN :
        IF ok
        THEN /\ pc' = "loop"
             /\ UNCHANGED <<exitCode, ghost>>
        ELSE /\ pc' = "done"
             /\ exitCode' = 1
             /\ ghost' = [ghost EXCEPT !.abort = "errorlog"]
    /\ UNCHANGED <<config, cwdChanged, attempt, lastError, success, fixHistory,
                   fixLocals, disk, auditJson, fixStats, historyFile>>

\* JSON.stringify(fixHistory, null, 2): an array of the entries, in order
HistoryJson(h) == [written |-> TRUE, entries |-> [i \in 1 .. Len(h) |-> h[i]]]

\* debug.js:193-198 and 219-222: after the loop, fix-history.json is written
\* when the history is not empty; a failing write reaches the catch of main.
SaveHistory ==
    /\ pc = "savehistory"
    /\ cmds' = << >>
    /\ IF Len(fixHistory) > 0
       THEN \E ok \in BOOLEAN :
               IF ok
               THEN /\ historyFile' = HistoryJson(fixHistory)
                    /\ pc' = "finish"
                    /\ exitCode' = exitCode
                    /\ ghost' = [ghost EXCEPT !.histWrites = @ + 1]
               ELSE /\ pc' = "done"
                    /\ exitCode' = 1
                    /\ ghost' = [ghost EXCEPT !.histWrites = @ + 1,
                                              !.abort = "history"]
                    /\ UNCHANGED historyFile
       ELSE /\ pc' = "finish"
            /\ UNCHANGED <<historyFile, exitCode, ghost>>
    /\ UNCHANGED <<config, cwdChanged, attempt, lastError, success, fixHistory,
                   fixLocals, disk, auditJson, fixStats>>

\* debug.js:200-217: return 0 after a success, 1 otherwise
Finish ==
    /\ pc = "finish"
    /\ exitCode' = IF success THEN 0 ELSE 1
    /\ pc' = "done"
    /\ UNCHANGED <<config, cwdChanged, attempt, lastError, success, fixHistory,
                   fixLocals, disk, auditJson, fixStats, historyFile, cmds, ghost>>

Next ==
    \/ Validate
    \/ LoopHead
    \/ Precheck
    \/ FixEnter
    \/ FixRequest
    \/ FixInnerCatch
    \/ FixApplyFile
    \/ FixSucceed
    \/ FixOuterCatch
    \/ FixReturn
    \/ FixCatch
    \/ DeployStep
    \/ WriteErrorLog
    \/ SaveHistory
    \/ Finish

Spec == Init /\ [][Next]_vars

\* every step of the tool returns eventually (no command, request or
\* filesystem call hangs)
FairSpec == Spec /\ WF_vars(Next)

\* ------------------------------------------- runs with scripted error texts
\* SnippetLen characters that two long error texts have in common
Pad == [i \in 1 .. SnippetLen |-> "x"]
TextA == <<"a">>
TextB == <<"b">>
LongB == Pad \o <<"b">>
LongC == Pad \o <<"c">>

\* what the failing command of the first and of the later attempts prints:
\* two short texts, two long texts that differ after SnippetLen characters,
\* nothing at first and a short text later
TextScripts == {<<{TextA}, {TextB}>>, <<{LongB}, {LongC}>>, <<{<< >>}, {TextA}>>}

InitSnippet ==
    /\ Start
    /\ parsedOption = [nan |-> FALSE, val |-> 3]
    /\ apiKey = TRUE
    /\ validProject \in BOOLEAN
    /\ texts \in TextScripts
    /\ lists = {<<[filename |-> FileA, content |-> ContentX]>>}
    /\ responses = Responses
    /\ px = NoPx

SpecSnippet == InitSnippet /\ [][Next]_vars

\* ------------------------------------------------ runs with every answer
\* every outcome of the request; an answer with files carries any summary
AllResponses ==
    {[kind |-> k, summary |-> "given"] : k \in ResponseKinds}
        \cup {[kind |-> "files", summary |-> s] : s \in Summaries}

InitResponse ==
    /\ Start
    /\ parsedOption = [nan |-> FALSE, val |-> 2]
    /\ apiKey = TRUE
    /\ validProject \in BOOLEAN
    /\ texts = <<ErrTexts>>
    /\ lists = FileLists
    /\ responses = AllResponses
    /\ px = NoPx

SpecResponse == InitResponse /\ [][Next]_vars

\* ------------------------------------- runs with overwrite conflicts
\* what the failing deploy prints: the signature with and without
\* Cannot write file messages, and a message without the signature
OverwriteTexts ==
    {<<"OW">>, <<"CWin">>, <<"OW", "CWin">>, <<"OW", "CWout">>, <<"OW", "CWgone">>,
     <<"OW", "CWin", "CWup">>}

\* the machine before the run: the project's lib/a.ts, and the files
\* /etc/x and /x.ts outside the project
OverwriteDisk ==
    [files |-> [q \in {pathJoin(ProjectDir, FileA), Resolve(CannotWritePath("CWout")),
                       Resolve(CannotWritePath("CWup"))} |-> Original],
     dirs |-> Ancestors(pathDirname(pathJoin(ProjectDir, FileA)))
                  \cup Ancestors(pathDirname(Resolve(CannotWritePath("CWout"))))]

InitOverwrite ==
    /\ pc = "validate"
    /\ cwdChanged = FALSE
    /\ attempt = 0
    /\ lastError = NoError
    /\ success = FALSE
    /\ fixHistory = << >>
    /\ exitCode = -1
    /\ auditData = NoAudit
    /\ result = << >>
    /\ applyIdx = 0
    /\ disk = OverwriteDisk
    /\ auditJson = NoAudit
    /\ fixStats = NoStats
    /\ historyFile = NoHistoryFile
    /\ cmds = << >>
    /\ ghost = NoGhost
    /\ parsedOption = [nan |-> FALSE, val |-> 2]
    /\ apiKey = TRUE
    /\ validProject \in BOOLEAN
    /\ texts = <<OverwriteTexts>>
    /\ lists = {<<[filename |-> FileA, content |-> ContentX]>>}
    /\ responses = Responses
    /\ px = NoPx

SpecOverwrite == InitOverwrite /\ [][Next]_vars

\* -------------------------------------------- runs with scripted file lists
\* the file names an answer can carry: a project file, the same file
\* under another spelling, a path that climbs out of the project, an
\* absolute path, a file in directories that do not exist yet
AliasA == <<".", Sep>> \o FileA
ClimbX == <<"..", Sep, "x", ".ts">>
AbsEtc == <<Sep, "etc", Sep, "x">>
NewC == <<"src", Sep, "new", Sep, "c", ".ts">>
ApplyNames == {FileA, AliasA, ClimbX, AbsEtc, NewC}

ApplyEntries == [filename : ApplyNames, content : {ContentX, ContentY}]

ApplyLists == UNION {[1 .. n -> ApplyEntries] : n \in 1 .. MaxApplyFiles}

InitApply ==
    /\ Start
    /\ parsedOption = [nan |-> FALSE, val |-> 2]
    /\ apiKey = TRUE
    /\ validProject \in BOOLEAN
    /\ texts = <<{TextA}>>
    /\ lists = ApplyLists
    /\ responses = Responses
    /\ px = NoPx

SpecApply == InitApply /\ [][Next]_vars

\* --------------------------------------------------- error-context extractor
\* debug.js:255-266
normalizeFilePath(filePath, projectDir) ==
    IF IsAbsolute(filePath)
    THEN IF StartsWith(filePath, projectDir)
         THEN pathRelative(projectDir, filePath)
         ELSE pathBasename(filePath)
    ELSE filePath

\* debug.js:552-554: the mention is a dependency or a runtime-internal file
SkipMention(filePath) ==
    \/ Includes(filePath, "node_modules")
    \/ StartsWith(filePath, <<"internal", Sep>>)
    \/ filePath = <<"module", ".js">>

DistPrefix == <<"dist", Sep>>

\* s.replace(/\.js$/, '.ts')
ReplaceJs(f) ==
    IF EndsWith(f, <<".js">>) THEN SubSeq(f, 1, Len(f) - 1) \o <<".ts">> ELSE f

\* s.replace(/\.d\.ts$/, '.ts')
ReplaceDts(f) ==
    IF EndsWith(f, <<".d", ".ts">>) THEN SubSeq(f, 1, Len(f) - 2) \o <<".ts">> ELSE f

\* debug.js:564: the source file of a path that starts with dist/
SourceOf(filePath) ==
    ReplaceDts(ReplaceJs(SubSeq(filePath, Len(DistPrefix) + 1, Len(filePath))))

\* a membership test that never finds anything
NeverMentioned(set, f) == FALSE

\* filesMentioned.has(f)
AlreadyMentioned(set, f) == f \in set

\* The files that exist while the extractor runs: a source file and its
\* build outputs, a project directory named internal, a file at the top
\* of the project, a file in the sibling directory /proj2.
ExtractFiles ==
    {<<Sep, "proj", Sep, "lib", Sep, "a", ".ts">>,
     <<Sep, "proj", Sep, "dist", Sep, "lib", Sep, "a", ".js">>,
     <<Sep, "proj", Sep, "dist", Sep, "lib", Sep, "a", ".d", ".ts">>,
     <<Sep, "proj", Sep, "internal", Sep, "x", ".ts">>,
     <<Sep, "proj", Sep, "b", ".ts">>,
     <<Sep, "proj", "2", Sep, "x", ".ts">>}

\* The file paths the patterns of debug.js:535-544 can capture from an error
\* text, as written in the text.
Mentions ==
    {<<"lib", Sep, "a", ".ts">>,
     <<".", Sep, "lib", Sep, "a", ".ts">>,
     <<"lib", Sep, "zz", ".ts">>,
     <<Sep, "proj", Sep, "lib", Sep, "a", ".ts">>,
     <<Sep, "proj", "2", Sep, "x", ".ts">>,
     <<Sep, "other", Sep, "b", ".ts">>,
     <<"node_modules", Sep, "m", Sep, "i", ".js">>,
     <<Sep, "proj", Sep, "node_modules", Sep, "m", Sep, "i", ".js">>,
     <<"internal", Sep, "loader", ".js">>,
     <<"module", ".js">>,
     <<"dist", Sep, "lib", Sep, "a", ".js">>,
     <<"dist", Sep, "lib", Sep, "a", ".d", ".ts">>,
     <<"dist", Sep, "lib", Sep, "zz", ".js">>,
     <<Sep, "proj", Sep, "dist", Sep, "lib", Sep, "a", ".js">>,
     <<Sep, "proj", Sep, "internal", Sep, "x", ".ts">>}

\* the captures of one error text, in the order the loops visit them
MentionLists == UNION {[1 .. n -> Mentions] : n \in 0 .. MaxMentions}

\* extractRelevantFiles(errorText, projectDir) has been called
ExtractCall(mentions) ==
    [fn |-> "extract", mentions |-> mentions, idx |-> 1, filesMentioned |-> {},
     relevantFiles |-> << >>, reads |-> << >>, norms |-> << >>]

InitExtract ==
    /\ Start
    /\ parsedOption = [nan |-> FALSE, val |-> 1]
    /\ apiKey = TRUE
    /\ validProject = TRUE
    /\ texts = <<ErrTexts>>
    /\ lists = FileLists
    /\ responses = Responses
    /\ px \in {ExtractCall(m) : m \in MentionLists}

mainVars == <<pc, parsedOption, apiKey, validProject, cwdChanged, attempt, lastError,
              success, fixHistory, exitCode, auditData, result, applyIdx, disk,
              auditJson, fixStats, historyFile, cmds, ghost, texts, lists,
              responses>>

\* debug.js:548-602: one turn of the loop over the matches.  reads logs the
\* calls of fs.readFile, norms the calls of normalizeFilePath.
ExtractStep ==
    /\ px.fn = "extract"
    /\ px.idx <= Len(px.mentions)
    /\ LET raw == px.mentions[px.idx]
           filePath == normalizeFilePath(raw, ProjectDir)
           norms1 == Append(px.norms, [raw |-> raw, out |-> filePath])
           isDist == StartsWith(filePath, DistPrefix)
           sourceFile == SourceOf(filePath)
           sourceFull == pathJoin(ProjectDir, sourceFile)
           addSource == isDist /\ ~AlreadyMentioned(px.filesMentioned, sourceFile)
           readSource == addSource /\ sourceFull \in ExtractFiles
           mentioned1 == IF addSource THEN px.filesMentioned \cup {sourceFile}
                         ELSE px.filesMentioned
           files1 == IF readSource
                     THEN Append(px.relevantFiles, [path |-> sourceFile, file |-> sourceFull])
                     ELSE px.relevantFiles
           reads1 == IF readSource
                     THEN Append(px.reads, [name |-> sourceFile, file |-> sourceFull])
                     ELSE px.reads
           fullPath == pathJoin(ProjectDir, filePath)
       IN  px' = IF SkipMention(raw)
                 THEN [px EXCEPT !.idx = @ + 1]
                 ELSE IF AlreadyMentioned(mentioned1, filePath)
                 THEN [px EXCEPT !.idx = @ + 1, !.norms = norms1,
                                 !.filesMentioned = mentioned1,
                                 !.relevantFiles = files1, !.reads = reads1]
                 ELSE [px EXCEPT !.idx = @ + 1, !.norms = norms1,
                                 !.filesMentioned = mentioned1 \cup {filePath},
                                 !.reads = Append(reads1, [name |-> filePath,
                                                           file |-> fullPath]),
                                 !.relevantFiles =
                                     IF fullPath \in ExtractFiles
                                     THEN Append(files1, [path |-> filePath,
                                                          file |-> fullPath])
                                     ELSE files1]
    /\ UNCHANGED mainVars

\* debug.js:605: return relevantFiles
ExtractReturn ==
    /\ px.fn = "extract"
    /\ px.idx > Len(px.mentions)
    /\ px' = [px EXCEPT !.fn = "extracted"]
    /\ UNCHANGED mainVars

NextExtract == ExtractStep \/ ExtractReturn

SpecExtract == InitExtract /\ [][NextExtract]_vars

\* ------------------------------------------------------------------ checksum
\* char codes (UTF-16 code units) of the contents tried: the smallest, a
\* letter, the largest
CharCodes == {0, 97, 256 * 256 - 1}

Contents == UNION {[1 .. n -> CharCodes] : n \in 0 .. MaxLen}

\* calculateChecksum(content) has been called
ChecksumCall(content) ==
    [fn |-> "checksum", content |-> content, i |-> 0, hash |-> <<0, 0>>, out |-> << >>]

InitChecksum ==
    /\ Start
    /\ parsedOption = [nan |-> FALSE, val |-> 1]
    /\ apiKey = TRUE
    /\ validProject = TRUE
    /\ texts = <<ErrTexts>>
    /\ lists = FileLists
    /\ responses = Responses
    /\ px \in {ChecksumCall(c) : c \in Contents}

\* debug.js:246-250: one turn of the loop
ChecksumStep ==
    /\ px.fn = "checksum"
    /\ px.i < Len(px.content)
    /\ px' = [px EXCEPT !.i = @ + 1, !.hash = HashStep(@, px.content[px.i + 1])]
    /\ UNCHANGED mainVars

\* debug.js:251: return hash.toString(16)
ChecksumReturn ==
    /\ px.fn = "checksum"
    /\ px.i = Len(px.content)
    /\ px' = [px EXCEPT !.fn = "checksummed", !.out = ToString16(px.hash)]
    /\ UNCHANGED mainVars

NextChecksum == ChecksumStep \/ ChecksumReturn

SpecChecksum == InitChecksum /\ [][NextChecksum]_vars

\* -------------------------------------------------- error hash fingerprints
\* Texts are sequences of characters; "T1" and "T2" each stand for the
\* characters of one ISO timestamp.  The texts tried hold no UUID, request
\* id, working-directory path or .ts(line,col) reference.
Stamps == {"T1", "T2"}
StampWord == <<"T", "I", "M", "E", "S", "T", "A", "M", "P">>
Blank == {" ", "\n"}

\* String.prototype.charCodeAt for the characters of a cleaned text
CodeOf(ch) ==
    CASE ch = " " -> 32
      [] ch = "a" -> 97
      [] ch = "b" -> 98
      [] ch = "A" -> 65
      [] ch = "E" -> 69
      [] ch = "I" -> 73
      [] ch = "M" -> 77
      [] ch = "P" -> 80
      [] ch = "S" -> 83
      [] ch = "T" -> 84

\* part_001:260-261: .replace(<timestamp>, 'TIMESTAMP')
RECURSIVE ReplaceStamps(_, _)
ReplaceStamps(text, i) ==
    IF i > Len(text) THEN << >>
    ELSE (IF text[i] \in Stamps THEN StampWord ELSE <<text[i]>>)
             \o ReplaceStamps(text, i + 1)

\* part_001:271: .replace(/\s+/g, ' ')
RECURSIVE CollapseBlanks(_, _)
CollapseBlanks(text, i) ==
    IF i > Len(text) THEN << >>
    ELSE IF text[i] \in Blank
         THEN (IF i > 1 /\ text[i - 1] \in Blank THEN << >> ELSE <<" ">>)
                  \o CollapseBlanks(text, i + 1)
         ELSE <<text[i]>> \o CollapseBlanks(text, i + 1)

\* part_001:272: .trim() of a text whose blanks are collapsed
Trim(text) ==
    LET a == IF text # << >> /\ text[1] = " " THEN 2 ELSE 1
        b == IF text # << >> /\ text[Len(text)] = " " THEN Len(text) - 1 ELSE Len(text)
    IN  SubSeq(text, a, b)

\* part_001:258-273
cleanErrorText(text) == Trim(CollapseBlanks(ReplaceStamps(text, 1), 1))

\* part_001:242: `${error.stderr || ''}\n${error.stdout || ''}\n${error.message || ''}`
ErrorTextOf(error) == error.stderr \o <<"\n">> \o error.stdout \o <<"\n">> \o error.message

\* part_001:248-251: a new object on every call; ref is its identity
HashObject(hash, cleanedText, ref) ==
    [ref |-> ref, hash |-> hash, cleanedText |-> cleanedText]

\* a === b on two objects: the same object
StrictEquals(a, b) == a.ref = b.ref

Missing == [null |-> TRUE, stderr |-> << >>, stdout |-> << >>, message |-> << >>]

ErrorRecords ==
    [null : {FALSE},
     stderr : {<< >>, <<"a">>, <<"a", " ", " ", "b">>, <<"T1", " ", "a">>, <<"T2", " ", "a">>},
     stdout : {<< >>, <<"b">>},
     message : {<< >>, <<"a">>}]

NoObject == [ref |-> 0, hash |-> << >>, cleanedText |-> << >>]

\* isSameErrorByHash(error1, error2) has been called
SameCall(error1, error2) ==
    [fn |-> "same", error1 |-> error1, error2 |-> error2, refs |-> 0,
     cleanedText |-> << >>, i |-> 0, hash |-> <<0, 0>>,
     hash1 |-> NoObject, hash2 |-> NoObject, out |-> FALSE]

InitHash ==
    /\ Start
    /\ parsedOption = [nan |-> FALSE, val |-> 1]
    /\ apiKey = TRUE
    /\ validProject = TRUE
    /\ texts = <<ErrTexts>>
    /\ lists = FileLists
    /\ responses = Responses
    /\ px \in {SameCall(e1, e2) : e1, e2 \in ErrorRecords \cup {Missing}}

\* part_001:297: if (!error1 || !error2) return false
SameMissing ==
    /\ px.fn = "same"
    /\ px.error1.null \/ px.error2.null
    /\ px' = [px EXCEPT !.fn = "compared", !.out = FALSE]
    /\ UNCHANGED mainVars

\* part_001:299 and 242-245: generateErrorHash(error1) cleans the text and
\* calls calculateHash (part_001:280: let hash = 0)
SameClean1 ==
    /\ px.fn = "same"
    /\ ~(px.error1.null \/ px.error2.null)
    /\ px' = [px EXCEPT !.fn = "hashing1", !.i = 0, !.hash = <<0, 0>>,
                        !.cleanedText = cleanErrorText(ErrorTextOf(px.error1))]
    /\ UNCHANGED mainVars

\* part_001:283-287: one turn of the loop of calculateHash
HashLoop ==
    /\ px.fn \in {"hashing1", "hashing2"}
    /\ px.i < Len(px.cleanedText)
    /\ px' = [px EXCEPT !.i = @ + 1,
                        !.hash = HashStep(@, CodeOf(px.cleanedText[px.i + 1]))]
    /\ UNCHANGED mainVars

\* part_001:281, 290 and 248-251: calculateHash returns hash.toString(16);
\* const hash1 = the object generateErrorHash returns
SameHash1 ==
    /\ px.fn = "hashing1"
    /\ px.i = Len(px.cleanedText)
    /\ px' = [px EXCEPT !.fn = "hashed1", !.refs = @ + 1,
                        !.hash1 = HashObject(ToString16(px.hash), px.cleanedText,
                                             px.refs + 1)]
    /\ UNCHANGED mainVars

\* part_001:300 and 242-245: generateErrorHash(error2) cleans the text and
\* calls calculateHash
SameClean2 ==
    /\ px.fn = "hashed1"
    /\ px' = [px EXCEPT !.fn = "hashing2", !.i = 0, !.hash = <<0, 0>>,
                        !.cleanedText = cleanErrorText(ErrorTextOf(px.error2))]
    /\ UNCHANGED mainVars

\* part_001:281, 290 and 248-251: const hash2 = the object generateErrorHash
\* returns
SameHash2 ==
    /\ px.fn = "hashing2"
    /\ px.i = Len(px.cleanedText)
    /\ px' = [px EXCEPT !.fn = "hashed2", !.refs = @ + 1,
                        !.hash2 = HashObject(ToString16(px.hash), px.cleanedText,
                                             px.refs + 1)]
    /\ UNCHANGED mainVars

\* part_001:302: return hash1 === hash2
SameReturn ==
    /\ px.fn = "hashed2"
    /\ px' = [px EXCEPT !.fn = "compared", !.out = StrictEquals(px.hash1, px.hash2)]
    /\ UNCHANGED mainVars

NextHash ==
    SameMissing \/ SameClean1 \/ HashLoop \/ SameHash1 \/ SameClean2 \/ SameHash2
        \/ SameReturn

SpecHash == InitHash /\ [][NextHash]_vars

\* ------------------------------------- deploy tool and generator deploy step
\* One call of main of the deploy tool (part_003:41-130) or of the deploy
\* step of the generator (debug.js:1110-1111, 1415-1472).
DeployCall(tool, yes, wanted, valid, stack) ==
    [fn |-> "deploycall", tool |-> tool, yes |-> yes, wanted |-> wanted,
     valid |-> valid, stack |-> stack, at |-> "start", confirm |-> "none",
     chdir |-> FALSE, cmds |-> << >>, exit |-> -1]

InitDeploy ==
    /\ Start
    /\ parsedOption = [nan |-> FALSE, val |-> 1]
    /\ apiKey = TRUE
    /\ validProject = TRUE
    /\ texts = <<ErrTexts>>
    /\ lists = FileLists
    /\ responses = Responses
    /\ px \in {DeployCall(tool, yes, wanted, valid, stack) :
                 tool \in {"deploy", "generator"}, yes \in BOOLEAN,
                 wanted \in BOOLEAN, valid \in BOOLEAN, stack \in BOOLEAN}

\* part_003:45-57: the deploy tool validates the project directory.
\* debug.js:1110-1116 and 1418-1425: the generator deploys only with
\* --deploy, and deployCdkProject changes directory before it asks.
DeployStart ==
    /\ px.fn = "deploycall"
    /\ px.at = "start"
    /\ px' = IF px.tool = "deploy"
             THEN IF px.valid THEN [px EXCEPT !.at = "prompt"]
                  ELSE [px EXCEPT !.at = "done", !.exit = 1]
             ELSE IF px.wanted THEN [px EXCEPT !.at = "prompt", !.chdir = TRUE]
                  ELSE [px EXCEPT !.at = "done", !.exit = 0]
    /\ UNCHANGED mainVars

\* a prompt whose answer is not looked at
DeployPromptIgnored ==
    /\ px.fn = "deploycall"
    /\ px.at = "prompt"
    /\ \E answer \in {"yes", "no"} :
           px' = [px EXCEPT !.at = "bootstrap", !.chdir = TRUE,
                            !.confirm = IF px.yes THEN @ ELSE answer]
    /\ UNCHANGED mainVars

\* part_003:60-84, debug.js:1428-1440: without --yes the user is asked; the
\* prompt can also reject (no terminal), which ends the run with exit code 1
DeployPrompt ==
    /\ px.fn = "deploycall"
    /\ px.at = "prompt"
    /\ IF px.yes
       THEN px' = [px EXCEPT !.at = "bootstrap", !.chdir = TRUE]
       ELSE \E answer \in {"yes", "no", "throw"} :
                px' = CASE answer = "yes" ->
                             [px EXCEPT !.at = "bootstrap", !.chdir = TRUE,
                                        !.confirm = "yes"]
                        [] answer = "no" ->
                             [px EXCEPT !.at = "done", !.exit = 0, !.confirm = "no"]
                        [] OTHER -> [px EXCEPT !.at = "done", !.exit = 1]
    /\ UNCHANGED mainVars

\* part_003:86-91, debug.js:1442-1447: bootstrap; a failure is thrown
DeployBootstrap ==
    /\ px.fn = "deploycall"
    /\ px.at = "bootstrap"
    /\ \E ok \in BOOLEAN :
           px' = [px EXCEPT !.cmds = Append(@, [cmd |-> "bootstrap", args |-> "", ok |-> ok]),
                            !.at = IF ok THEN "deploy" ELSE "done",
                            !.exit = IF ok THEN @ ELSE 1]
    /\ UNCHANGED mainVars

\* part_003:97-102: the deploy tool names the stack or passes --all
DeployArgs(tool, stack) ==
    IF tool = "deploy" THEN (IF stack THEN "<stack>" ELSE "--all") ELSE ""

\* part_003:93-124, debug.js:1449-1456: deploy; a failure ends with exit code 1
DeployDeploy ==
    /\ px.fn = "deploycall"
    /\ px.at = "deploy"
    /\ \E ok \in BOOLEAN :
           px' = [px EXCEPT !.cmds = Append(@, [cmd |-> "deploy",
                                                args |-> DeployArgs(px.tool, px.stack),
                                                ok |-> ok]),
                            !.at = IF ok THEN "outputs" ELSE "done",
                            !.exit = IF ok THEN @ ELSE 1]
    /\ UNCHANGED mainVars

\* part_003:112-119: a failure to list the exports is only reported;
\* debug.js:1460-1471: in the generator it is thrown
DeployOutputs ==
    /\ px.fn = "deploycall"
    /\ px.at = "outputs"
    /\ \E ok \in BOOLEAN :
           px' = [px EXCEPT !.cmds = Append(@, [cmd |-> "outputs", args |-> "", ok |-> ok]),
                            !.at = "done",
                            !.exit = IF ok \/ px.tool = "deploy" THEN 0 ELSE 1]
    /\ UNCHANGED mainVars

NextDeploy ==
    DeployStart \/ DeployPrompt \/ DeployBootstrap \/ DeployDeploy \/ DeployOutputs

SpecDeploy == InitDeploy /\ [][NextDeploy]_vars

\* ---------------------------------------------------------------------
\* The fix registry (part_001:7-119): loadRegistry, saveRegistry, addFix
\* and updateFix, called from up to two concurrent async callers.  Every
\* await of a filesystem promise is a suspension point, so each action is
\* the synchronous code between two awaits.  A fix is a record of id,
\* errorPattern and lastUpdated; the clock counts the calls started, and
\* new Date() reads it.  The registry's own version and lastUpdated fields
\* are left out.

\* the calls of one run
MaxCalls == 2

FixIds == {"a", "b"}

NoFix == [id |-> "", errorPattern |-> "", lastUpdated |-> 0]

StoredA == [id |-> "a", errorPattern |-> "p", lastUpdated |-> 0]

StoredB == [id |-> "b", errorPattern |-> "p", lastUpdated |-> 0]

MissingFile == [state |-> "missing", fixes |-> << >>]

\* the registry file before the run: absent, not JSON, or a registry
RegistryFiles ==
    {MissingFile, [state |-> "corrupt", fixes |-> << >>]}
        \cup {[state |-> "valid", fixes |-> f] :
                 f \in {<< >>, <<StoredA>>, <<StoredA, StoredB>>}}

\* the arguments of addFix (a fix with an id and without lastUpdated) and
\* of updateFix (an id; the update names errorPattern, and for fix b an
\* old lastUpdated as well)
CallArgs(fn) ==
    IF fn = "addFix"
    THEN {[id |-> i, errorPattern |-> "n", lastUpdated |-> 0, stamped |-> FALSE] :
             i \in FixIds}
    ELSE IF fn = "updateFix"
    THEN {[id |-> i, errorPattern |-> "q", lastUpdated |-> 0, stamped |-> i = "b"] :
             i \in FixIds}
    ELSE {[id |-> "", errorPattern |-> "", lastUpdated |-> 0, stamped |-> FALSE]}

IdleCall ==
    [fn |-> "none", at |-> "idle", arg |-> CHOOSE a \in CallArgs("loadRegistry") : TRUE,
     registry |-> "none", fixes |-> << >>, payload |-> << >>, fixIndex |-> 0,
     error |-> "none", returned |-> NoFix, before |-> MissingFile,
     loaded |-> "none", saved |-> FALSE]

\* part_001:7-12: DEFAULT_REGISTRY is one object of the module; defaults is
\* its fixes array.
RegistryCall(slots, file) ==
    [fn |-> "registry", slots |-> slots, file |-> file, defaults |-> << >>,
     clock |-> 0, calls |-> [c \in 1 .. slots |-> IdleCall],
     added |-> {}, faults |-> 0, defaultWrites |-> {}, called |-> {}]

InitRegistry ==
    /\ Start
    /\ parsedOption = [nan |-> FALSE, val |-> 1]
    /\ apiKey = TRUE
    /\ validProject = TRUE
    /\ texts = <<ErrTexts>>
    /\ lists = FileLists
    /\ responses = Responses
    /\ px \in {RegistryCall(slots, file) : slots \in {1, 2}, file \in RegistryFiles}

\* a caller calls loadRegistry, addFix or updateFix
RegistryStart(c) ==
    /\ px.calls[c].at \in {"idle", "done"}
    /\ px.clock < MaxCalls
    /\ \E fn \in {"loadRegistry", "addFix", "updateFix"} :
         \E arg \in CallArgs(fn) :
            px' = [px EXCEPT !.clock = @ + 1,
                             !.called = @ \cup {fn},
                             !.calls[c] = [IdleCall EXCEPT !.fn = fn, !.at = "check",
                                               !.arg = arg,
                                               !.before = px.file]]
    /\ UNCHANGED mainVars

\* part_001:17-21: existsSync; without a file the default registry is
\* serialised and the write is awaited.
loadRegistryExists(c) ==
    /\ px.calls[c].at = "check"
    /\ px' = IF px.file.state = "missing"
             THEN [px EXCEPT !.calls[c].at = "write", !.calls[c].payload = px.defaults]
             ELSE [px EXCEPT !.calls[c].at = "read"]
    /\ UNCHANGED mainVars

\* part_001:20-21: the awaited write of the default registry settles; a
\* rejection is caught (part_001:28-31) and the default registry is
\* serialised again.
loadRegistryCreate(c) ==
    /\ px.calls[c].at = "write"
    /\ \E ok \in BOOLEAN :
         px' = IF ok
               THEN [px EXCEPT !.file = [state |-> "valid", fixes |-> px.calls[c].payload],
                               !.defaultWrites = @ \cup {px.calls[c].payload},
                               !.calls[c].registry = "default",
                               !.calls[c].loaded = "default",
                               !.calls[c].at = "loaded"]
               ELSE [px EXCEPT !.faults = 1,
                               !.calls[c].at = "rewrite",
                               !.calls[c].payload = px.defaults]
    /\ UNCHANGED mainVars

\* part_001:25-31: readFile and JSON.parse; a parsed registry is a new
\* object, a failure is caught and the default registry is serialised.
loadRegistryRead(c) ==
    /\ px.calls[c].at = "read"
    /\ \E ok \in BOOLEAN :
         px' = IF ok /\ px.file.state = "valid"
               THEN [px EXCEPT !.calls[c].registry = "own",
                               !.calls[c].loaded = "file",
                               !.calls[c].fixes = px.file.fixes,
                               !.calls[c].at = "loaded"]
               ELSE [px EXCEPT !.faults = IF ok THEN @ ELSE 1,
                               !.calls[c].at = "rewrite",
                               !.calls[c].payload = px.defaults]
    /\ UNCHANGED mainVars

\* part_001:31-33: the write in the catch block settles; its rejection
\* leaves loadRegistry, and with it the caller, rejected.
loadRegistryRecover(c) ==
    /\ px.calls[c].at = "rewrite"
    /\ \E ok \in BOOLEAN :
         px' = IF ok
               THEN [px EXCEPT !.file = [state |-> "valid", fixes |-> px.calls[c].payload],
                               !.defaultWrites = @ \cup {px.calls[c].payload},
                               !.calls[c].registry = "default",
                               !.calls[c].loaded = "default",
                               !.calls[c].at = "loaded"]
               ELSE [px EXCEPT !.faults = 1,
                               !.calls[c].at = "done",
                               !.calls[c].error = "io"]
    /\ UNCHANGED mainVars

\* the fixes array of the registry object a call holds: DEFAULT_REGISTRY's
\* or the parsed one's
FixesOf(c) ==
    IF px.calls[c].registry = "default" THEN px.defaults ELSE px.calls[c].fixes

\* a caller of loadRegistry alone receives the registry
loadRegistryReturn(c) ==
    /\ px.calls[c].at = "loaded"
    /\ px.calls[c].fn = "loadRegistry"
    /\ px' = [px EXCEPT !.calls[c].at = "done"]
    /\ UNCHANGED mainVars

\* part_001:80-94 and 39-40: lastUpdated is set, the fix is pushed on the
\* registry object, and saveRegistry serialises it and awaits the write.
addFix(c) ==
    /\ px.calls[c].at = "loaded"
    /\ px.calls[c].fn = "addFix"
    /\ LET fix == [id |-> px.calls[c].arg.id,
                   errorPattern |-> px.calls[c].arg.errorPattern,
                   lastUpdated |-> px.clock]
           pushed == Append(FixesOf(c), fix)
       IN px' = IF px.calls[c].registry = "default"
                THEN [px EXCEPT !.defaults = pushed,
                                !.calls[c].payload = pushed,
                                !.calls[c].returned = fix,
                                !.calls[c].at = "save"]
                ELSE [px EXCEPT !.calls[c].fixes = pushed,
                                !.calls[c].payload = pushed,
                                !.calls[c].returned = fix,
                                !.calls[c].at = "save"]
    /\ UNCHANGED mainVars

\* fixes.findIndex(fix => fix.id === fixId), counted from 1; 0 for -1
FindIndex(fixes, fixId) ==
    IF \E i \in 1 .. Len(fixes) : fixes[i].id = fixId
    THEN CHOOSE i \in 1 .. Len(fixes) :
             /\ fixes[i].id = fixId
             /\ \A j \in 1 .. i - 1 : fixes[j].id # fixId
    ELSE 0

\* {...old, ...updatedData}: the update's fields, and the old value of
\* the fields the update does not name
SpreadOld(old, arg) ==
    [id |-> old.id,
     errorPattern |-> arg.errorPattern,
     lastUpdated |-> IF arg.stamped THEN arg.lastUpdated ELSE old.lastUpdated]

\* the update's fields alone, without the old fix's
MergeUpdateOnly(old, arg, now) ==
    [id |-> "", errorPattern |-> arg.errorPattern, lastUpdated |-> now]

\* part_001:110-114: the merged fix, lastUpdated set last
MergeFix(old, arg, now) ==
    [SpreadOld(old, arg) EXCEPT !.lastUpdated = now]

\* part_001:102-116 and 39-40: an unknown id throws; a known one has its
\* fix replaced in the registry object, which saveRegistry serialises.
updateFix(c) ==
    /\ px.calls[c].at = "loaded"
    /\ px.calls[c].fn = "updateFix"
    /\ LET fixIndex == FindIndex(FixesOf(c), px.calls[c].arg.id)
           replaced == [FixesOf(c) EXCEPT
                           ![fixIndex] = MergeFix(@, px.calls[c].arg, px.clock)]
       IN px' = IF fixIndex = 0
                THEN [px EXCEPT !.calls[c].at = "done", !.calls[c].error = "notfound"]
                ELSE IF px.calls[c].registry = "default"
                THEN [px EXCEPT !.defaults = replaced,
                                !.calls[c].payload = replaced,
                                !.calls[c].fixIndex = fixIndex,
                                !.calls[c].at = "save"]
                ELSE [px EXCEPT !.calls[c].fixes = replaced,
                                !.calls[c].payload = replaced,
                                !.calls[c].fixIndex = fixIndex,
                                !.calls[c].at = "save"]
    /\ UNCHANGED mainVars

\* part_001:37-49, 94-96 and 117-118: the write of saveRegistry settles; a
\* rejection is logged and answered with false, which the callers ignore.
\* addFix returns the id, updateFix the fix now at fixIndex.
saveRegistry(c) ==
    /\ px.calls[c].at = "save"
    /\ \E ok \in BOOLEAN :
         LET returned == IF px.calls[c].fn = "updateFix"
                         THEN FixesOf(c)[px.calls[c].fixIndex]
                         ELSE px.calls[c].returned
             added == IF px.calls[c].fn = "addFix"
                      THEN px.added \cup {px.calls[c].arg.id}
                      ELSE px.added
         IN px' = IF ok
                  THEN [px EXCEPT !.file = [state |-> "valid",
                                            fixes |-> px.calls[c].payload],
                                  !.calls[c].saved = TRUE,
                                  !.added = added,
                                  !.calls[c].returned = returned,
                                  !.calls[c].at = "done"]
                  ELSE [px EXCEPT !.faults = 1,
                                  !.added = added,
                                  !.calls[c].returned = returned,
                                  !.calls[c].at = "done"]
    /\ UNCHANGED mainVars

NextRegistry ==
    \/ \E c \in 1 .. px.slots : RegistryStart(c)
    \/ \E c \in 1 .. px.slots : loadRegistryExists(c)
    \/ \E c \in 1 .. px.slots : loadRegistryCreate(c)
    \/ \E c \in 1 .. px.slots : loadRegistryRead(c)
    \/ \E c \in 1 .. px.slots : loadRegistryRecover(c)
    \/ \E c \in 1 .. px.slots : loadRegistryReturn(c)
    \/ \E c \in 1 .. px.slots : addFix(c)
    \/ \E c \in 1 .. px.slots : updateFix(c)
    \/ \E c \in 1 .. px.slots : saveRegistry(c)

SpecRegistry == InitRegistry /\ [][NextRegistry]_vars

\* ---------------------------------------------------------------------
\* The search for the JSON object in the response (debug.js:453-468).  A
\* response text is a sequence of tokens: the braces, "k" for a member
\* name with its colon, "1" for a number, "x" for a word of prose.

JsonTokens == {"{", "}", "k", "1", "x"}

ResponseTexts == UNION {[1 .. n -> JsonTokens] : n \in 0 .. MaxLen}

\* the positions of a token in a text
Positions(text, token) == {i \in 1 .. Len(text) : text[i] = token}

MinOf(S) == CHOOSE i \in S : \A j \in S : i <= j

MaxOf(S) == CHOOSE i \in S : \A j \in S : i >= j

\* responseText.match(/\{[\s\S]*\}/): the leftmost opening brace that has
\* a closing brace after it, and, the star being greedy, everything up
\* to the last closing brace of the text
Match(text) ==
    LET opens == Positions(text, "{")
        closes == {j \in Positions(text, "}") : opens # {} /\ j > MinOf(opens)}
    IN IF closes = {} THEN [found |-> FALSE, text |-> << >>]
       ELSE [found |-> TRUE, text |-> SubSeq(text, MinOf(opens), MaxOf(closes))]

RECURSIVE JsonObject(_)
\* JSON.parse accepts the text as an object: {} or {k value}, a value
\* being a number or an object
JsonObject(text) ==
    /\ Len(text) >= 2
    /\ text[1] = "{"
    /\ text[Len(text)] = "}"
    /\ \/ Len(text) = 2
       \/ /\ Len(text) >= 4
          /\ text[2] = "k"
          /\ \/ SubSeq(text, 3, Len(text) - 1) = <<"1">>
             \/ JsonObject(SubSeq(text, 3, Len(text) - 1))

JsonCall(text) ==
    [fn |-> "json", at |-> "match", responseText |-> text, jsonMatch |-> << >>,
     thrown |-> "none"]

InitJson ==
    /\ Start
    /\ parsedOption = [nan |-> FALSE, val |-> 1]
    /\ apiKey = TRUE
    /\ validProject = TRUE
    /\ texts = <<ErrTexts>>
    /\ lists = FileLists
    /\ responses = Responses
    /\ px \in {JsonCall(text) : text \in ResponseTexts}

\* debug.js:459-462: the match, or the throw when there is none
JsonMatch ==
    /\ px.at = "match"
    /\ LET m == Match(px.responseText)
       IN px' = IF m.found
                THEN [px EXCEPT !.at = "parse", !.jsonMatch = m.text]
                ELSE [px EXCEPT !.at = "done", !.thrown = "nojson"]
    /\ UNCHANGED mainVars

\* debug.js:465-468 and 481: JSON.parse(jsonMatch[0]), whose error is caught
JsonParse ==
    /\ px.at = "parse"
    /\ px' = IF JsonObject(px.jsonMatch)
             THEN [px EXCEPT !.at = "done"]
             ELSE [px EXCEPT !.at = "done", !.thrown = "badjson"]
    /\ UNCHANGED mainVars

NextJson == JsonMatch \/ JsonParse

SpecJson == InitJson /\ [][NextJson]_vars

TypeOK ==
    /\ pc \in {"validate", "loop", "precheck", "fix", "request", "innercatch",
               "apply", "outercatch", "fixreturn", "fixcatch", "deploy", "errlog",
               "savehistory", "finish", "done"}
    /\ attempt \in 0 .. MAX_FIX_ATTEMPTS + MaxOption
    /\ exitCode \in {-1, 0, 1}
    /\ success \in BOOLEAN

\* ================================================================ properties
Done == pc = "done"

\* fixDeploymentErrors has just returned or thrown
FixEnded == pc \in {"fixreturn", "fixcatch"}

\* C1: for maxAttempts = N >= 1 the deploy step runs at most N times and the
\* fix step at most N-1 times, and the exit code is 1 exactly when no deploy
\* attempt succeeded (0 otherwise).
C1_ExitCodeIffAllDeploysFailed ==
    maxAttempts >= 1 =>
        /\ ghost.deploys <= maxAttempts
        /\ ghost.fixes <= maxAttempts - 1
        /\ Done => /\ exitCode \in {0, 1}
                   /\ (exitCode = 1) <=> ~success

C3_MissingCredentialAborts ==
    ~apiKey =>
        /\ ghost.deploys <= 1
        /\ ghost.fixes <= 1
        /\ (Done /\ ghost.fixes >= 1) => exitCode = 1

\* C4: a fix step failing with a transport error, a malformed response or an
\* empty file set writes no project file and is followed by the deploy step
\* of its iteration; with the endpoint unreachable on every fix attempt and
\* every deploy failing, the deploy step runs exactly maxAttempts times and
\* the exit code is 1.
C4_FixFailureNonFatal ==
    /\ (pc = "fixcatch" /\ fixStats.kind \in {"transport", "nojson", "badjson", "nofiles", "notarray",
                                            "emptyfiles"})
           => fixStats.filesWritten = 0
    /\ pc \in {"loop", "savehistory", "finish"} => ghost.deploys = attempt
    /\ (Done /\ maxAttempts >= 1 /\ validProject /\ ~success
             /\ ghost.fixes >= 1 /\ ghost.onlyTransport)
           => (ghost.deploys = maxAttempts /\ exitCode = 1)

\* C5: only an invalid project directory and a missing credential end the
\* run early; with a valid project and a credential, a run without a
\* successful deploy ends only after maxAttempts deploy steps.
C5_OnlyFatalErrorsEndEarly ==
    (Done /\ validProject /\ apiKey /\ maxAttempts >= 1 /\ ~success)
        => ghost.deploys = maxAttempts

\* C6 (as stated): whenever the fix step ends, in success or in any failure,
\* an audit record has been persisted (unless the audit write itself failed).
C6_AuditOnEveryOutcome ==
    FixEnded => (fixStats.fsFault \/ (auditJson.written /\ auditJson.prompt))

\* C6 (amended): a fix step that passes the credential check calls logAudit
\* before it returns or throws; unless an audit write fails, the JSON record
\* is on disk by then with the prompt, the raw response if one was received,
\* the parsed result or the parse error, and a success flag that is true
\* exactly when the step returns.  A missing credential throws before any
\* audit data exists and persists nothing.
C6_AuditBeforeFixEnds ==
    FixEnded =>
        IF fixStats.kind = "nokey"
        THEN fixStats.logAuditCalls = 0 /\ ~auditJson.written
        ELSE /\ fixStats.logAuditCalls >= 1
             /\ ~fixStats.fsFault =>
                   /\ auditJson.written
                   /\ auditJson.prompt
                   /\ auditJson.rawResponse <=> fixStats.kind # "transport"
                   /\ auditJson.parseError <=> fixStats.kind \in {"badjson", "nofiles", "notarray",
                                                              "emptyfiles"}
                   /\ auditJson.response <=> fixStats.kind \in {"files", "writefail"}
                   /\ auditJson.success <=> pc = "fixreturn"

C6_Witness ==
    /\ pc = "fixcatch"
    /\ fixStats.kind = "badjson"
    /\ auditJson.written
    /\ auditJson.parseError
    /\ ~auditJson.success

\* C7: every fix step that reaches the request runs logAudit exactly once
\* and leaves exactly one JSON file and one readable file (audit writes not
\* failing), also when the parsed response is absent.
C7_OneAuditPairPerFix ==
    (FixEnded /\ fixStats.requested /\ ~fixStats.fsFault)
        => /\ fixStats.logAuditCalls = 1
           /\ fixStats.jsonFiles = 1
           /\ fixStats.mdFiles = 1

\* C8: the history is append-only: every step leaves it unchanged or appends
\* one entry at its end, and the attempt numbers of its entries are strictly
\* increasing and lie in 1..maxAttempts.
C8_HistoryAppendOnly ==
    /\ [][\/ fixHistory' = fixHistory
          \/ /\ Len(fixHistory') = Len(fixHistory) + 1
             /\ SubSeq(fixHistory', 1, Len(fixHistory)) = fixHistory]_vars
    /\ [](\A i \in 1 .. Len(fixHistory) :
            /\ fixHistory[i].attempt \in 1 .. maxAttempts
            /\ \A j \in 1 .. Len(fixHistory) :
                  i < j => fixHistory[i].attempt < fixHistory[j].attempt)

C8_Witness == Len(fixHistory) >= 2 /\ pc = "deploy"

\* C9: a run of the loop ends in one of two states: Succeeded, after a
\* deploy step that exited 0, or Exhausted, after maxAttempts failed deploy
\* steps.
C9_TwoTerminalStates ==
    (Done /\ validProject /\ maxAttempts >= 1) =>
        \/ exitCode = 0 /\ success
        \/ exitCode = 1 /\ ~success /\ ghost.deploys = maxAttempts

\* under fair scheduling every run ends
C9_Terminates == <>Done

\* C10: the history file is written at most once, only after the loop; a
\* run that ends after maxAttempts failed deploys with a non-empty history
\* has written the file, with every entry in order, and reports failure.
C10_HistorySavedOnExhaustion ==
    /\ ghost.histWrites <= 1
    /\ ghost.histWrites >= 1 => pc \in {"finish", "done"}
    /\ historyFile.written => historyFile.entries = fixHistory
    /\ (Done /\ maxAttempts >= 1 /\ ~success /\ ghost.deploys = maxAttempts
             /\ Len(fixHistory) > 0)
           => /\ ghost.histWrites = 1
              /\ exitCode = 1
              /\ ghost.abort # "history" => historyFile.written

\* the text printed by the failing command of attempt i in a scripted run
ScriptedText(i) == CHOOSE t \in texts[Min(i, Len(texts))] : TRUE

\* C11 (as stated): when the deploy step fails k times with pairwise distinct
\* error texts and then succeeds on attempt k+1 <= maxAttempts, the exit code
\* is 0 and the history has exactly k entries with pairwise distinct
\* snippets, each the first 200 characters of the failure's stderr or its
\* message when stderr is empty.
C11_DistinctErrorsDistinctSnippets ==
    LET k == ghost.deploys - 1
    IN  (/\ Done /\ success /\ k + 1 <= maxAttempts
         /\ \A i \in 1 .. Len(texts) : Cardinality(texts[i]) = 1
         /\ \A i, j \in 1 .. k : i # j => ScriptedText(i) # ScriptedText(j))
        => /\ exitCode = 0
           /\ Len(fixHistory) = k
           /\ \A i \in 1 .. Len(fixHistory) :
                LET t == ScriptedText(i)
                IN  fixHistory[i].error.snippet =
                        IF t = << >> THEN <<ErrMessage>>
                        ELSE [n \in 1 .. Min(200, Len(t)) |-> t[n]]
           /\ \A i, j \in 1 .. Len(fixHistory) :
                i # j => fixHistory[i].error.snippet # fixHistory[j].error.snippet

\* fixDeploymentErrors has returned normally
FixReturned == pc = "fixreturn"

\* C12 (as stated): after a fix step returned for the file list F, for every
\* entry of F the file at P/<filename> exists, its content is that of the
\* last entry of F carrying that filename, and its parent directories exist.
C12_LastEntryOfFilenameWins ==
    FixReturned =>
        \A i \in 1 .. Len(result) :
            LET filePath == pathJoin(ProjectDir, result[i].filename)
                last == CHOOSE j \in 1 .. Len(result) :
                            /\ result[j].filename = result[i].filename
                            /\ \A m \in j + 1 .. Len(result) :
                                   result[m].filename # result[i].filename
            IN  /\ filePath \in DOMAIN disk.files
                /\ disk.files[filePath] = result[last].content
                /\ Ancestors(pathDirname(filePath)) \subseteq disk.dirs

\* C12 (amended): after a fix step returned for the file list F, for every
\* entry of F the file at P/<filename> exists, its content is that of the
\* last entry of F whose filename resolves to the same path (two spellings
\* of one path, such as lib/a.ts and ./lib/a.ts, are one file), and its
\* parent directories exist.
C12_LastEntryOfPathWins ==
    FixReturned =>
        \A i \in 1 .. Len(result) :
            LET filePath == pathJoin(ProjectDir, result[i].filename)
                last == CHOOSE j \in 1 .. Len(result) :
                            /\ pathJoin(ProjectDir, result[j].filename) = filePath
                            /\ \A m \in j + 1 .. Len(result) :
                                   pathJoin(ProjectDir, result[m].filename) # filePath
            IN  /\ filePath \in DOMAIN disk.files
                /\ disk.files[filePath] = result[last].content
                /\ Ancestors(pathDirname(filePath)) \subseteq disk.dirs

\* a fix step returned for a list that names one file twice, under two
\* spellings and with two contents
C12_Witness ==
    /\ FixReturned
    /\ Len(result) = 2
    /\ result[1].filename # result[2].filename
    /\ pathJoin(ProjectDir, result[1].filename) = pathJoin(ProjectDir, result[2].filename)
    /\ result[1].content # result[2].content

\* C13: for every filename returned by the model, '..' segments and absolute
\* names included, the file written and the directories created lie under
\* the project root.
C13_WritesStayUnderRoot ==
    /\ \A q \in DOMAIN disk.files : UnderDir(q, ProjectDir)
    /\ \A d \in disk.dirs \ InitialDisk.dirs : UnderDir(d, ProjectDir)

\* extractRelevantFiles has returned
Extracted == px.fn = "extracted"

\* C14 (as stated): the sequence returned by extractRelevantFiles has no two
\* entries with the same path and no entry inside node_modules or the
\* runtime's internal directory, and each distinct resolved path is read at
\* most once per call.
C14_NoDuplicateNoDependencyReadOnce ==
    Extracted =>
        /\ \A i, j \in 1 .. Len(px.relevantFiles) :
               i # j => px.relevantFiles[i].path # px.relevantFiles[j].path
        /\ \A i \in 1 .. Len(px.relevantFiles) :
               /\ ~Includes(px.relevantFiles[i].path, "node_modules")
               /\ ~StartsWith(px.relevantFiles[i].path, <<"internal", Sep>>)
        /\ \A i, j \in 1 .. Len(px.reads) :
               i # j => px.reads[i].file # px.reads[j].file

\* C14 (amended): the sequence returned by extractRelevantFiles has no two
\* entries with the same path string and no entry whose path contains
\* node_modules; every entry was read from the file its path names; each
\* distinct path string is read at most once per call; an error text whose
\* mentions are all dependency or runtime-internal files gives no read and
\* no entry.  (Two spellings of one file are read once each, and an
\* absolute path can normalize to a path under internal/.)
C14_NoDuplicateStringReadOncePerString ==
    Extracted =>
        /\ \A i, j \in 1 .. Len(px.relevantFiles) :
               i # j => px.relevantFiles[i].path # px.relevantFiles[j].path
        /\ \A i \in 1 .. Len(px.relevantFiles) :
               /\ ~Includes(px.relevantFiles[i].path, "node_modules")
               /\ px.relevantFiles[i].file \in ExtractFiles
               /\ \E r \in 1 .. Len(px.reads) :
                      px.reads[r] = [name |-> px.relevantFiles[i].path,
                                     file |-> px.relevantFiles[i].file]
        /\ \A i, j \in 1 .. Len(px.reads) :
               i # j => px.reads[i].name # px.reads[j].name
        /\ (\A m \in 1 .. Len(px.mentions) :
                \/ Includes(px.mentions[m], "node_modules")
                \/ StartsWith(px.mentions[m], <<"internal", Sep>>)
                \/ px.mentions[m] = <<"module", ".js">>)
           => px.relevantFiles = << >> /\ px.reads = << >>

\* the extractor returned one entry for an error text that names one file
\* twice (once relative, once absolute) and a dependency file
C14_Witness ==
    /\ Extracted
    /\ Len(px.mentions) = 3
    /\ px.mentions[1] = <<"lib", Sep, "a", ".ts">>
    /\ px.mentions[2] = <<Sep, "proj", Sep, "lib", Sep, "a", ".ts">>
    /\ Includes(px.mentions[3], "node_modules")
    /\ Len(px.relevantFiles) = 1

\* C15: a mention of a path under dist/ is mapped to its source path (prefix
\* stripped, .js or .d.ts replaced by .ts) and the source file is read
\* instead of the build output: no dist/ path is read or returned.
C15_BuildOutputMappedToSource ==
    Extracted =>
        /\ \A i \in 1 .. Len(px.relevantFiles) :
               ~StartsWith(px.relevantFiles[i].path, DistPrefix)
        /\ \A i \in 1 .. Len(px.reads) : ~StartsWith(px.reads[i].name, DistPrefix)
        /\ \A n \in 1 .. Len(px.norms) :
               (/\ StartsWith(px.norms[n].out, DistPrefix)
                /\ pathJoin(ProjectDir, SourceOf(px.norms[n].out)) \in ExtractFiles)
               => \E i \in 1 .. Len(px.relevantFiles) :
                      px.relevantFiles[i].path = SourceOf(px.norms[n].out)

\* C16: normalizeFilePath maps an absolute path inside the project root to
\* the path relative to the root, an absolute path outside the root (a
\* sibling directory whose name starts with the root's path string
\* included) to its base name, and a relative path to itself; the result
\* never leaves the root through a '..' segment.
C16_NormalizedPathStaysInRoot ==
    \A n \in 1 .. Len(px.norms) :
        LET raw == px.norms[n].raw
            out == px.norms[n].out
            inside == UnderDir(pathNormalize(raw), ProjectDir)
        IN  /\ (IsAbsolute(raw) /\ inside)
                   => ~IsAbsolute(out) /\ pathJoin(ProjectDir, out) = pathNormalize(raw)
            /\ (IsAbsolute(raw) /\ ~inside) => out = pathBasename(raw)
            /\ ~IsAbsolute(raw) => out = raw
            /\ \A g \in 1 .. Len(Segments(out)) : Segments(out)[g] # <<"..">>

\* calculateChecksum has returned
Checksummed == px.fn = "checksummed"

\* (31 * h + c) mod 2^32 on a word, by multiplication
Times31Plus(w, c) ==
    LET lo == w[2] * 31 + c
        hi == w[1] * 31 + (lo \div Half)
    IN  <<hi % Half, lo % Half>>

\* the fold h := 31 * h + charCode from h = 0, wrapped to 32 bits
RECURSIVE Fold31(_, _)
Fold31(content, n) ==
    IF n = 0 THEN <<0, 0>> ELSE Times31Plus(Fold31(content, n - 1), content[n])

\* the base-16 rendering of a word read as a signed 32-bit integer: a minus
\* sign for a word of 2^31 or more, then the digits of the magnitude
\* without leading zeros
Base16(w) ==
    LET neg == w[1] >= Half \div 2
        mlo == IF neg THEN (Half - w[2]) % Half ELSE w[2]
        mhi == IF neg THEN (Half - 1 - w[1] + (IF w[2] = 0 THEN 1 ELSE 0)) % Half ELSE w[1]
        nib == <<(mhi \div 4096) % 16, (mhi \div 256) % 16, (mhi \div 16) % 16, mhi % 16,
                 (mlo \div 4096) % 16, (mlo \div 256) % 16, (mlo \div 16) % 16, mlo % 16>>
        first == IF \E k \in 1 .. 8 : nib[k] # 0
                 THEN CHOOSE k \in 1 .. 8 : nib[k] # 0 /\ \A m \in 1 .. k - 1 : nib[m] = 0
                 ELSE 8
        digits == [k \in 1 .. 9 - first |-> HexDigit(nib[first + k - 1])]
    IN  IF neg THEN <<"-">> \o digits ELSE digits

\* C17: calculateChecksum is deterministic, and its result is the base-16
\* rendering of the fold h := 31 * h + charCode, wrapped to a signed 32-bit
\* integer, over the characters of the content from h = 0: the empty
\* content gives "0" and the value stays within the signed 32-bit range.
C17_ChecksumIsFold31 ==
    /\ px.fn \in {"checksum", "checksummed"} =>
           /\ px.hash = Fold31(px.content, px.i)
           /\ px.hash[1] \in 0 .. Half - 1 /\ px.hash[2] \in 0 .. Half - 1
    /\ Checksummed =>
           /\ px.out = Base16(Fold31(px.content, Len(px.content)))
           /\ px.out = calculateChecksum(px.content)
           /\ px.content = << >> => px.out = <<"0">>
           /\ Len(px.out) <= (IF px.out[1] = "-" THEN 9 ELSE 8)

\* a checksum was returned for a content long enough to wrap: the result is
\* negative
C17_Witness ==
    /\ Checksummed
    /\ Len(px.content) = MaxLen
    /\ px.out[1] = "-"

\* the commands of the current deploy step up to, not including, number i
\* hold a build that exited 0
BuildExited0(i) == \E j \in 1 .. i - 1 : cmds[j] = [cmd |-> "build", ok |-> TRUE]

\* ... hold a build that exited 0, or a failed build followed by a forced
\* rebuild (npx tsc --build --force) that exited 0
BuildOrRebuildExited0(i) ==
    \/ BuildExited0(i)
    \/ \E j \in 2 .. i - 1 : /\ cmds[j] = [cmd |-> "tsc", ok |-> TRUE]
                             /\ cmds[j - 1] = [cmd |-> "build", ok |-> FALSE]

SynthExited0(i) == \E j \in 1 .. i - 1 : cmds[j] = [cmd |-> "synth", ok |-> TRUE]

\* C18 (as stated): within a deploy step the commands run in the order
\* build, synthesize, deploy; synthesize starts only after the build command
\* exited 0, deploy only after synthesize exited 0, and the step is
\* successful only if all three exited 0.
C18_BuildSynthDeployAllExit0 ==
    cmds # << >> =>
        /\ cmds[1].cmd = "build"
        /\ \A i \in 1 .. Len(cmds) :
               /\ cmds[i].cmd = "synth" => BuildExited0(i)
               /\ cmds[i].cmd = "deploy" => SynthExited0(i)
        /\ success => /\ BuildExited0(Len(cmds))
                      /\ SynthExited0(Len(cmds))
                      /\ cmds[Len(cmds)] = [cmd |-> "deploy", ok |-> TRUE]

\* C18 (amended): within a deploy step the commands run in the order build,
\* synthesize, deploy, each at most once; when the build fails with the
\* 'overwrite input file' signature a forced rebuild runs right after it
\* and stands in for it.  Synthesize starts only after the build, or the
\* forced rebuild after a failed build, exited 0; deploy starts only after
\* synthesize exited 0; a command that fails is the last of the step; the
\* step is successful exactly when the build or its forced rebuild,
\* synthesize and deploy exited 0.
C18_BuildOrRebuildSynthDeploy ==
    cmds # << >> =>
        /\ cmds[1].cmd = "build"
        /\ \A i, j \in 1 .. Len(cmds) : i # j => cmds[i].cmd # cmds[j].cmd
        /\ \A i \in 1 .. Len(cmds) :
               /\ cmds[i].cmd = "tsc" => i = 2 /\ ~cmds[1].ok
               /\ cmds[i].cmd = "synth" => BuildOrRebuildExited0(i)
               /\ cmds[i].cmd = "deploy" => SynthExited0(i)
               /\ (~cmds[i].ok /\ i < Len(cmds)) => (i = 1 /\ cmds[2].cmd = "tsc")
        /\ success <=> /\ BuildOrRebuildExited0(Len(cmds))
                       /\ SynthExited0(Len(cmds))
                       /\ cmds[Len(cmds)] = [cmd |-> "deploy", ok |-> TRUE]

\* a deploy step succeeded through the forced rebuild
C18_Witness ==
    /\ success
    /\ Len(cmds) = 4
    /\ cmds[1] = [cmd |-> "build", ok |-> FALSE]
    /\ cmds[2] = [cmd |-> "tsc", ok |-> TRUE]

\* C19: when the project directory holds no cdk.json the tool exits with
\* code 1 before any attempt: no deploy step, no fix step, no inference
\* request and no change of working directory.
C19_InvalidProjectAbortsBeforeAnyAttempt ==
    ~validProject =>
        /\ pc \in {"validate", "done"}
        /\ Done => exitCode = 1
        /\ ghost.deploys = 0 /\ ghost.fixes = 0
        /\ attempt = 0 /\ cmds = << >>
        /\ auditData = NoAudit /\ fixStats = NoStats /\ auditJson = NoAudit
        /\ ~cwdChanged
        /\ disk = InitialDisk /\ ~historyFile.written

\* a run on an invalid project directory has ended
C19_Witness == ~validProject /\ Done /\ exitCode = 1

\* isSameErrorByHash has returned
Compared == px.fn = "compared"

\* C20: for two error records isSameErrorByHash returns true exactly when
\* the hashes of their cleaned error texts are equal (so true for two
\* records with identical stderr, stdout and message), and false when
\* either argument is missing.
C20_SameErrorIffEqualHashes ==
    Compared =>
        IF px.error1.null \/ px.error2.null
        THEN px.out = FALSE
        ELSE /\ px.out <=> (px.hash1.hash = px.hash2.hash)
             /\ px.error1 = px.error2 => px.out

\* C21: in the deploy tool and in the deploy step of the generator, without
\* --yes and without the user's confirmation no bootstrap and no deploy
\* command runs; they run only after --yes or a confirmation, and deploy
\* starts only after bootstrap completed successfully.
C21_NoDeployWithoutConsent ==
    /\ (~px.yes /\ px.confirm # "yes") => px.cmds = << >>
    /\ \A i \in 1 .. Len(px.cmds) :
           /\ px.cmds[i].cmd \in {"bootstrap", "deploy"} => px.yes \/ px.confirm = "yes"
           /\ px.cmds[i].cmd = "deploy" =>
                  \E j \in 1 .. i - 1 : px.cmds[j].cmd = "bootstrap" /\ px.cmds[j].ok

\* the user declined the prompt and the run has ended
C21_Witness ==
    /\ px.at = "done"
    /\ ~px.yes
    /\ px.confirm = "no"
    /\ px.exit = 0

\* the number of deploy steps of this run that failed
failedDeploys == ghost.deploys - (IF success THEN 1 ELSE 0)

\* Where the loop of main stands (debug.js:84-191), for a valid project and
\* maxAttempts >= 1: deploying (up to the end of a deploy step), fixing
\* (from a failed deploy step that is not the last to the end of the fix
\* step that follows it), succeeded, exhausted (maxAttempts deploy steps
\* failed), or aborted (the run ended without a success before maxAttempts
\* deploy steps were made).
loopState ==
    IF ~validProject \/ maxAttempts < 1 THEN "none"
    ELSE IF success THEN "Succeeded"
    ELSE IF pc = "deploy" \/ ghost.deploys = 0 THEN "Deploying"
    ELSE IF ghost.deploys >= maxAttempts THEN "Exhausted"
    ELSE IF pc \in {"savehistory", "finish", "done"} THEN "Aborted"
    ELSE "Fixing"

\* C22: for maxAttempts >= 1 the loop of main makes the same deploy and fix
\* steps and ends in the same state as the machine that starts in Deploying
\* with attempt = 0, on a failed deploy records the error, adds 1 to
\* attempt and goes to Fixing if attempt < max and to Exhausted otherwise,
\* and returns from Fixing to Deploying: every step of main is a step of
\* that machine or leaves its state unchanged, a fix step runs between any
\* two deploy steps, and the run ends with exit code 0 in Succeeded and
\* with exit code 1 in Exhausted.
C22_LoopRefinesStateMachine ==
    /\ loopState \in {"none", "Deploying"} /\ failedDeploys = 0
    /\ [][\/ /\ loopState = "Deploying"
             /\ loopState' = "Succeeded"
             /\ failedDeploys' = failedDeploys
          \/ /\ loopState = "Deploying"
             /\ failedDeploys' = failedDeploys + 1
             /\ loopState' = IF failedDeploys' < maxAttempts THEN "Fixing"
                             ELSE "Exhausted"
             /\ lastError'.set
          \/ /\ loopState = "Fixing"
             /\ loopState' = "Deploying"
             /\ failedDeploys' = failedDeploys
             /\ ghost.fixes = failedDeploys
         ]_<<loopState, failedDeploys>>
    /\ [](Done /\ loopState # "none" =>
              \/ loopState = "Succeeded" /\ exitCode = 0
              \/ loopState = "Exhausted" /\ exitCode = 1)

\* a sequential caller's updateFix has returned or thrown
Updated ==
    /\ px.fn = "registry"
    /\ px.slots = 1
    /\ px.calls[1].fn = "updateFix"
    /\ px.calls[1].at = "done"

\* the list of fixes the registry file holds
StoredFixes(file) == IF file.state = "valid" THEN file.fixes ELSE << >>

\* the list with the fix at fixIndex replaced by the merge of its fields and
\* the update, stamped now
ReplacedAt(fixes, fixIndex, arg, now) ==
    [i \in 1 .. Len(fixes) |->
        IF i = fixIndex
        THEN [id |-> fixes[i].id, errorPattern |-> arg.errorPattern, lastUpdated |-> now]
        ELSE fixes[i]]

\* C25 as stated: updateFix with an id that matches no stored fix raises an
\* error and leaves the stored list unchanged; with an existing id the
\* stored list is the old one with only that fix replaced by the merge,
\* freshly stamped.
C25_UpdateFixReplacesOnlyThatFix ==
    Updated =>
        LET call == px.calls[1]
            old == StoredFixes(call.before)
            idx == FindIndex(old, call.arg.id)
        IN IF idx = 0
           THEN call.error # "none" /\ StoredFixes(px.file) = old
           ELSE StoredFixes(px.file) = ReplacedAt(old, idx, call.arg, px.clock)

\* C25, amended: when loadRegistry read and parsed the registry file,
\* updateFix with an unknown id raises an error and leaves the file
\* unchanged; with an existing id it returns the merge of that fix's old
\* fields and the update, freshly stamped, and the file holds the old list
\* with only that fix replaced if the write of saveRegistry succeeded and is
\* unchanged if it failed.
C25_UpdateFixReplacesWhenLoadedAndSaved ==
    Updated /\ px.calls[1].loaded = "file" =>
        LET call == px.calls[1]
            old == call.before.fixes
            idx == FindIndex(old, call.arg.id)
            new == ReplacedAt(old, idx, call.arg, px.clock)
        IN IF idx = 0
           THEN call.error = "notfound" /\ px.file = call.before
           ELSE /\ call.error = "none"
                /\ call.returned = new[idx]
                /\ call.returned.lastUpdated > old[idx].lastUpdated
                /\ px.file = IF call.saved THEN [state |-> "valid", fixes |-> new]
                             ELSE call.before

C25_Witness ==
    /\ Updated
    /\ px.calls[1].loaded = "file"
    /\ px.calls[1].saved
    /\ px.calls[1].arg.id = "b"
    /\ Len(px.file.fixes) = 2
    /\ px.file.fixes[1] = StoredA
    /\ px.file.fixes[2].errorPattern = "q"

\* every call of the registry has returned or thrown
Quiescent ==
    /\ px.fn = "registry"
    /\ px.clock > 0
    /\ \A c \in 1 .. px.slots : px.calls[c].at \in {"idle", "done"}

\* C27: when addFix calls run
\* concurrently and all of them have completed, with no read or write of the
\* registry file failing, the stored registry holds every added fix.
C27_NoConcurrentAddFixLost ==
    Quiescent /\ px.called = {"addFix"} /\ px.faults = 0 =>
        /\ px.file.state = "valid"
        /\ \A id \in px.added :
               \E i \in 1 .. Len(px.file.fixes) : px.file.fixes[i].id = id

\* C28: in a sequence of loadRegistry, addFix and updateFix calls, every
\* registry that loadRegistry writes because it found no file or could not
\* read or parse it has an empty list of fixes.
C28_DefaultRegistryHasNoFixes ==
    px.fn = "registry" /\ px.slots = 1 =>
        \A written \in px.defaultWrites : written = << >>

\* the answer of the current fix step parsed, and its files field is
\* absent, not an array, or an empty array
FilesRejected == fixStats.kind \in {"nofiles", "notarray", "emptyfiles"}

\* the answer of the current fix step has a non-empty files array, and
\* no summary or an empty one
SummaryMissing ==
    /\ fixStats.kind \in {"files", "writefail"}
    /\ fixStats.parsedSummary \in {"absent", ""}

\* C23: an answer whose files field is absent, not an array or empty makes
\* the fix step fail: it throws to main without writing a project file or
\* adding a history entry.  An answer with a non-empty files array and no
\* or an empty summary passes the structure check, the fix step returns once
\* its files are written, and the summary of the result and of the history
\* entry is 'No summary provided'.
C23_StructureCheckAndSummaryPlaceholder ==
    /\ FilesRejected =>
          /\ pc \in {"innercatch", "outercatch", "fixcatch", "deploy"}
          /\ fixStats.filesWritten = 0
          /\ disk = InitialDisk
          /\ ghost.fixReturns = 0
          /\ fixHistory = << >>
    /\ SummaryMissing =>
          /\ pc \in {"apply", "fixreturn", "outercatch", "fixcatch", "deploy"}
          /\ pc \in {"apply", "fixreturn"} => auditData.summary = "No summary provided"
          /\ pc = "deploy" /\ fixStats.kind = "files" =>
                 /\ ghost.fixReturns = 1
                 /\ Len(fixHistory) = 1
                 /\ fixHistory[1].summary = "No summary provided"

C23_Witness ==
    /\ SummaryMissing
    /\ fixStats.parsedSummary = "absent"
    /\ pc = "deploy"
    /\ Len(fixHistory) = 1
    /\ fixHistory[1].summary = "No summary provided"
    /\ fixStats.filesWritten > 0

\* the response was searched and, if a candidate was found, parsed
Parsed == px.fn = "json" /\ px.at = "done"

\* the end of the first balanced run of braces of a text that starts at
\* position from: the first position where as many braces have closed as
\* have opened; 0 if there is none
BalancedEnd(text, from) ==
    LET depth(j) == Cardinality({i \in from .. j : text[i] = "{"})
                        - Cardinality({i \in from .. j : text[i] = "}"})
        ends == {j \in from .. Len(text) : depth(j) = 0}
    IN IF ends = {} THEN 0 ELSE MinOf(ends)

\* the first balanced-looking object of a text, << >> if there is none
FirstBalanced(text) ==
    LET opens == Positions(text, "{")
    IN IF opens = {} \/ BalancedEnd(text, MinOf(opens)) = 0 THEN << >>
       ELSE SubSeq(text, MinOf(opens), BalancedEnd(text, MinOf(opens)))

\* C24: the candidate handed to JSON.parse is the first balanced-looking
\* object of the response text, and the response is refused as malformed
\* exactly when there is no such object or it does not parse.
C24_CandidateIsFirstBalancedObject ==
    Parsed =>
        /\ px.thrown # "nojson" => px.jsonMatch = FirstBalanced(px.responseText)
        /\ px.thrown = "none" <=> JsonObject(FirstBalanced(px.responseText))

\* C26: a fix step that ends in failure has written no project file, and
\* after a fix step that wrote project files the last history entry is
\* the one of this iteration.
C26_FailedFixStepWroteNothing ==
    /\ pc = "fixcatch" => fixStats.filesWritten = 0
    /\ pc = "deploy" /\ fixStats.filesWritten > 0 =>
           /\ fixHistory # << >>
           /\ fixHistory[Len(fixHistory)].attempt = attempt

\* the files whose permissions the pre-check changed or which it deleted
Touched == ghost.chmods \cup ghost.unlinks

\* C29: the overwrite pre-check changes the permissions of or deletes a file
\* only when the stderr of the previous deploy holds the overwrite
\* signature, only before the fix step of the same iteration, and only if
\* the file is named in a Cannot write file message of that stderr and lies
\* under the project root; and the loop goes on after the pre-check.
C29_PrecheckTouchesOnlyNamedProjectFiles ==
    [][/\ pc = "precheck" =>
             /\ pc' = (IF lastError.set THEN "fix" ELSE "deploy")
             /\ exitCode' = exitCode
             /\ attempt' = attempt
       /\ Touched' # Touched \/ DOMAIN disk'.files # DOMAIN disk.files =>
             /\ pc = "precheck" \/ pc = "apply"
       /\ Touched' # Touched =>
             /\ pc = "precheck"
             /\ pc' = "fix"
             /\ lastError.set
             /\ Includes(lastError.stderr, "OW")
             /\ \A filePath \in Touched' \ Touched :
                    /\ \E i \in 1 .. Len(lastError.stderr) :
                           /\ lastError.stderr[i] \in CannotWrite
                           /\ Resolve(CannotWritePath(lastError.stderr[i])) = filePath
                    /\ UnderDir(filePath, ProjectDir)
      ]_vars

\* C30: the loop makes at most as many deploy attempts as the integer parsed
\* from --max-attempts, or 5 when the value is not a number or parses to 0,
\* and exactly that many when the project is valid, every deploy fails and
\* no write aborts the run; with a negative value a run makes no deploy
\* attempt, keeps an empty history and ends with exit code 1.
C30_AttemptCeiling ==
    LET ceiling == IF parsedOption.nan \/ parsedOption.val = 0 THEN MAX_FIX_ATTEMPTS
                   ELSE parsedOption.val
    IN /\ attempt <= (IF ceiling < 0 THEN 0 ELSE ceiling)
       /\ ghost.deploys <= attempt
       /\ Done /\ validProject /\ ~success /\ ghost.abort = "none" /\ ceiling >= 0 =>
              ghost.deploys = ceiling
       /\ ceiling < 0 =>
              /\ ghost.deploys = 0
              /\ fixHistory = << >>
              /\ ~historyFile.written
              /\ Done => exitCode = 1

C30_Witness ==
    /\ Done
    /\ validProject
    /\ ~parsedOption.nan
    /\ parsedOption.val < 0
    /\ cwdChanged
    /\ ghost.deploys = 0
    /\ exitCode = 1

====
